---------------------------- MODULE Spec2Model ----------------------------
(***************************************************************************)
(* Advent of Code 2018 solutions (sraaphorst/advent-of-code-2018).         *)
(*                                                                         *)
(* Day 15 (src/day_15.py): the grid combat simulation Game.play and the    *)
(* attack-power calibration Game.determine_elf_strength, modelled as a     *)
(* state machine whose steps are the stages of play()'s loops.             *)
(*                                                                         *)
(* Tiles are <<x, y>> = <<row, col>>, 0-based as in the source; the board  *)
(* is a sequence of rows, so the source's _board[x][y] is                  *)
(* self_board[x + 1][y + 1].                                               *)
(*                                                                         *)
(* The other days are separate programs.  Each has its own variables, its  *)
(* own initial predicate and next-state relation, and its own              *)
(* specification (Day01Spec, Day05Spec, ...); while one program runs, the  *)
(* variables of the others are not in use and hold None.                   *)
(***************************************************************************)
EXTENDS Integers, Sequences, FiniteSets, TLC

VARIABLES
    data,             \* the text handed to Game(data)
    self_board,       \* Game._board
    self_critters,    \* Game._critters: tile -> Critter
    pc,               \* where the program is
    mode,             \* the method the caller invoked: "play" or "strength"
    calls,            \* number of method calls made on the Game so far
    arg_critters,     \* determine_elf_strength: its local `critters`
    attack_power,     \* determine_elf_strength: its local `attack_power`
    critters,         \* play: its local `critters` (the occupancy map)
    critters_obj,     \* play: the dict object `critters` names: "own" (a fresh
                      \* copy), "self" (Game._critters) or "arg" (the argument)
    num_rounds,       \* play: num_rounds
    critter_order,    \* play: critter_order
    idx,              \* play: position of the for loop in critter_order
    all_units_acted,  \* play: all_units_acted
    enemy_to_attack,  \* play: enemy_to_attack (its key in critters) or None
    ret,              \* value returned by the last play() that returned
    returned,         \* log: what each call of the caller returned
    trials,           \* log: the trial runs of determine_elf_strength
    round_log,        \* log: the units at the start of the round, and the ids
                      \* of the living units whose turn has come in the round
    full_rounds,      \* log: number of rounds whose for loop ran to its end
    last              \* log: what the last step of play() did, and the
                      \* occupancy map before it

vars == <<data, self_board, self_critters, pc, mode, calls, arg_critters,
          attack_power, critters, critters_obj, num_rounds, critter_order, idx,
          all_units_acted, enemy_to_attack, ret, returned, trials, round_log,
          full_rounds, last>>

(***************************************************************************)
(* Bounds of the model.                                                    *)
(***************************************************************************)
MaxRows == 3
MaxCols == 3
MaxCells == 6
MaxPieces == 3
MaxCalls == 2
MaxRounds == 80
MaxPower == 40

(***************************************************************************)
(* Program constants.                                                      *)
(***************************************************************************)
InitialAttackPower == 3
InitialHitPoints == 200

None == "None"

(***************************************************************************)
(* State of the other days' programs.                                      *)
(***************************************************************************)
VARIABLES
    \* Day 11 (src/day_11.py), SummedAreaTable
    pc11,             \* "new" before SummedAreaTable(table) has run, then
                      \* "built", and "summed" once sum_of has been called
    table,            \* the table handed to SummedAreaTable(table)
    sa_rows,          \* SummedAreaTable.rows
    sa_cols,          \* SummedAreaTable.cols
    sa_table,         \* SummedAreaTable._table
    rectangle,        \* the arguments <<x, y, width, height>> of the last sum_of
    area_sum          \* what the last sum_of returned, or the error it raised

VARIABLES
    \* Day 9 (src/day_09.py), calculate_highest_score
    pc09,             \* "loop" inside the for loop, "done" after the return
    num_players,      \* the argument num_players
    upper_marble,     \* the argument upper_marble
    marbles,          \* the Marble objects made so far: a Marble is named by
                      \* its value, and left and right name Marbles
    current_marble,   \* current_marble
    scores,           \* scores; the source's scores[i] is scores[i + 1]
    current_player,   \* current_player
    new_marble,       \* the loop variable new_marble
    highest,          \* the value returned
    game_by_rules     \* log: the game played by the rules of the docstring with
                      \* the marbles taken so far

day09_vars == <<pc09, num_players, upper_marble, marbles, current_marble, scores,
                current_player, new_marble, highest, game_by_rules>>

Day09Unused ==
    /\ pc09 = None /\ num_players = None /\ upper_marble = None /\ marbles = None
    /\ current_marble = None /\ scores = None /\ current_player = None
    /\ new_marble = None /\ highest = None /\ game_by_rules = None

day11_vars == <<pc11, table, sa_rows, sa_cols, sa_table, rectangle, area_sum>>

Day11Unused ==
    /\ pc11 = None /\ table = None /\ sa_rows = None /\ sa_cols = None
    /\ sa_table = None /\ rectangle = None /\ area_sum = None

Day15Unused ==
    /\ data = None /\ self_board = None /\ self_critters = None /\ pc = None
    /\ mode = None /\ calls = None /\ arg_critters = None /\ attack_power = None
    /\ critters = None /\ critters_obj = None /\ num_rounds = None
    /\ critter_order = None /\ idx = None /\ all_units_acted = None
    /\ enemy_to_attack = None /\ ret = None /\ returned = None /\ trials = None
    /\ round_log = None /\ full_rounds = None /\ last = None

\* the variables of the programs other than Day 15
VARIABLES
    \* Day 13 (src/day_13.py), Rails and Cart
    pc13,             \* "loop" at the test of the while loop of the simulation,
                      \* "tick" inside the for loop of Rails.tick, "done" after
                      \* the return, or the exception raised
    remove_crashes,   \* FALSE in run_simulation, TRUE in run_cart_removal_simulation
    rails,            \* Rails._rails: position -> Track
    carts,            \* Rails._carts: position -> Cart
    cart_order,       \* Rails.tick: cart_order
    order_idx,        \* Rails.tick: position of the for loop in cart_order
    result,           \* the value the simulation returned
    ticks,            \* log: number of calls of Rails.tick
    tick_start,       \* log: Rails._carts at the start of the current tick
    last_cart         \* log: what the last Cart.tick did, and Rails._carts before it

day13_vars == <<pc13, remove_crashes, rails, carts, cart_order, order_idx, result,
                ticks, tick_start, last_cart>>

Day13Unused ==
    /\ pc13 = None /\ remove_crashes = None /\ rails = None /\ carts = None
    /\ cart_order = None /\ order_idx = None /\ result = None /\ ticks = None
    /\ tick_start = None /\ last_cart = None

VARIABLES
    \* Day 14 (src/day_14.py), find_recipes and find_recipes_2
    pc14,             \* "loop" inside the while loop, "done" after the return
    part,             \* the function called: "find_recipes" or "find_recipes_2"
    rounds_arg,       \* find_recipes: the argument rounds
    pattern,          \* find_recipes_2: the argument pattern, a string of digits
    recipes,          \* recipes; the source's recipes[i] is recipes[i + 1]
    elf1,             \* elf1
    elf2,             \* elf2
    last_digits,      \* find_recipes_2: last_digits
    answer            \* the value returned

day14_vars == <<pc14, part, rounds_arg, pattern, recipes, elf1, elf2, last_digits,
                answer>>

Day14Unused ==
    /\ pc14 = None /\ part = None /\ rounds_arg = None /\ pattern = None
    /\ recipes = None /\ elf1 = None /\ elf2 = None /\ last_digits = None
    /\ answer = None

VARIABLES
    \* Day 12 (src/day_12.py), Pots
    pc12,             \* "loop" at the head of the for loop, "cyclic" after the
                      \* break, "done" after the return
    transitions,      \* Pots._transitions: lookup number -> 0 or 1
    initial_state,    \* Pots.initial_state, a sequence of bits
    generations,      \* the argument generations
    state,            \* state; the source's state[i] is state[i + 1]
    zero_pot_idx,     \* zero_pot_idx
    cyclic_generation,\* cyclic_generation
    cyclic_diff,      \* cyclic_diff
    generation,       \* the loop variable generation (the next one to run)
    pot_sum           \* the value returned

day12_vars == <<pc12, transitions, initial_state, generations, state, zero_pot_idx,
                cyclic_generation, cyclic_diff, generation, pot_sum>>

Day12Unused ==
    /\ pc12 = None /\ transitions = None /\ initial_state = None
    /\ generations = None /\ state = None /\ zero_pot_idx = None
    /\ cyclic_generation = None /\ cyclic_diff = None /\ generation = None
    /\ pot_sum = None

VARIABLES
    \* Day 5 (src/day_05.py), simplify_polymer
    pc05,             \* "loop" inside the for loop, "done" after the return
    polymer,          \* the argument polymer, a sequence of characters
    ignore,           \* the argument ignore
    polymer_stack,    \* stack; the top is the last element
    p_idx,            \* number of characters of polymer the for loop has taken
    simplified,       \* the value returned
    first_call        \* log: <<argument, value returned>> of the call before
                      \* this one, when this call's argument is that value

day05_vars == <<pc05, polymer, ignore, polymer_stack, p_idx, simplified, first_call>>

Day05Unused ==
    /\ pc05 = None /\ polymer = None /\ ignore = None /\ polymer_stack = None
    /\ p_idx = None /\ simplified = None /\ first_call = None

VARIABLES
    \* Day 1 (src/day_01/day_01.py, src/day01/day012.py), find_repeated_frequency
    pc01,             \* "loop" at the test of the while loop, "done" after the return
    freqs,            \* the argument freqs; the source's freqs[i] is freqs[i + 1]
    gen_n,            \* frequency_generator: n, after the last yield
    seen_freqs,       \* find_repeated_frequency: s
    freq,             \* find_repeated_frequency: freq
    repeated          \* the value returned

day01_vars == <<pc01, freqs, gen_n, seen_freqs, freq, repeated>>

Day01Unused ==
    /\ pc01 = None /\ freqs = None /\ gen_n = None /\ seen_freqs = None
    /\ freq = None /\ repeated = None

\* the variables of the programs other than Day 15
other_days == <<day01_vars, day05_vars, day09_vars, day11_vars, day12_vars, day13_vars, day14_vars>>

OtherDaysUnused ==
    Day01Unused /\ Day05Unused /\ Day09Unused /\ Day11Unused
    /\ Day12Unused /\ Day13Unused /\ Day14Unused

\* the variables of the programs other than Day 1
not_day01 == <<vars, day05_vars, day09_vars, day11_vars,
               day12_vars, day13_vars, day14_vars>>

NotDay01Unused ==
    Day15Unused /\ Day05Unused /\ Day09Unused /\ Day11Unused
    /\ Day12Unused /\ Day13Unused /\ Day14Unused

\* the variables of the programs other than Day 5
not_day05 == <<vars, day01_vars, day09_vars, day11_vars,
               day12_vars, day13_vars, day14_vars>>

NotDay05Unused ==
    Day15Unused /\ Day01Unused /\ Day09Unused /\ Day11Unused
    /\ Day12Unused /\ Day13Unused /\ Day14Unused

\* the variables of the programs other than Day 9
not_day09 == <<vars, day01_vars, day05_vars, day11_vars,
               day12_vars, day13_vars, day14_vars>>

NotDay09Unused ==
    Day15Unused /\ Day01Unused /\ Day05Unused /\ Day11Unused
    /\ Day12Unused /\ Day13Unused /\ Day14Unused

\* the variables of the programs other than Day 11
not_day11 == <<vars, day01_vars, day05_vars, day09_vars,
               day12_vars, day13_vars, day14_vars>>

NotDay11Unused ==
    Day15Unused /\ Day01Unused /\ Day05Unused /\ Day09Unused
    /\ Day12Unused /\ Day13Unused /\ Day14Unused

\* the variables of the programs other than Day 12
not_day12 == <<vars, day01_vars, day05_vars, day09_vars,
               day11_vars, day13_vars, day14_vars>>

NotDay12Unused ==
    Day15Unused /\ Day01Unused /\ Day05Unused /\ Day09Unused
    /\ Day11Unused /\ Day13Unused /\ Day14Unused

\* the variables of the programs other than Day 13
not_day13 == <<vars, day01_vars, day05_vars, day09_vars,
               day11_vars, day12_vars, day14_vars>>

NotDay13Unused ==
    Day15Unused /\ Day01Unused /\ Day05Unused /\ Day09Unused
    /\ Day11Unused /\ Day12Unused /\ Day14Unused

\* the variables of the programs other than Day 14
not_day14 == <<vars, day01_vars, day05_vars, day09_vars,
               day11_vars, day12_vars, day13_vars>>

NotDay14Unused ==
    Day15Unused /\ Day01Unused /\ Day05Unused /\ Day09Unused
    /\ Day11Unused /\ Day12Unused /\ Day13Unused

(***************************************************************************)
(* Generic helpers.                                                        *)
(***************************************************************************)
\* Python's tuple order on pairs: reading order of tiles (row, then column)
TupleLess(a, b) == a[1] < b[1] \/ (a[1] = b[1] /\ a[2] < b[2])

\* sorted(S) for a set of pairs
RECURSIVE SortedTiles(_)
SortedTiles(S) ==
    IF S = {} THEN <<>>
    ELSE LET m == CHOOSE t \in S : \A u \in S \ {t} : TupleLess(t, u)
         IN  <<m>> \o SortedTiles(S \ {m})

\* min(S) for a non-empty set of pairs
MinTile(S) == CHOOSE t \in S : \A u \in S \ {t} : TupleLess(t, u)

RECURSIVE SumOver(_, _)
SumOver(f, S) ==
    IF S = {} THEN 0
    ELSE LET k == CHOOSE k \in S : TRUE IN f[k] + SumOver(f, S \ {k})

\* Python's stable sorted(seq, key=...): insertion into the sorted prefix after
\* every element whose key is not larger
RECURSIVE InsertStable(_, _, _)
InsertStable(s, e, key) ==
    IF s = <<>> THEN <<e>>
    ELSE IF key[e] < key[Head(s)] THEN <<e>> \o s
    ELSE <<Head(s)>> \o InsertStable(Tail(s), e, key)

RECURSIVE StableSort(_, _)
StableSort(s, key) ==
    IF s = <<>> THEN <<>>
    ELSE InsertStable(StableSort(SubSeq(s, 1, Len(s) - 1), key), s[Len(s)], key)

(***************************************************************************)
(* Game.__init__: parsing of the map text.                                 *)
(***************************************************************************)
\* str.split('\n'): the text is a sequence of characters
RECURSIVE SplitFrom(_, _, _)
SplitFrom(s, i, cur) ==
    IF i > Len(s) THEN <<cur>>
    ELSE IF s[i] = "\n" THEN <<cur>> \o SplitFrom(s, i + 1, <<>>)
    ELSE SplitFrom(s, i + 1, Append(cur, s[i]))

Split(s) == SplitFrom(s, 1, <<>>)


\* mutant: only '#' is a wall
TerrainOfHashOnly(entry) == IF entry = "#" THEN "WALL" ELSE "FLOOR"

TerrainOf(entry) == IF entry \in {".", "E", "G"} THEN "FLOOR" ELSE "WALL"

ParseBoard(text) ==
    LET lines == Split(text)
    IN  [r \in 1..Len(lines) |-> [c \in 1..Len(lines[r]) |-> TerrainOf(lines[r][c])]]

\* tiles holding a unit symbol
UnitTiles(text) ==
    LET lines == Split(text)
    IN  {t \in UNION {{<<r - 1, c - 1>> : c \in 1..Len(lines[r])} : r \in 1..Len(lines)} :
            lines[t[1] + 1][t[2] + 1] \in {"E", "G"}}

\* Critter(race, x, y): ids are handed out in creation order, from 0
Critter(race, x, y, id) ==
    [id |-> id, race |-> race, x |-> x, y |-> y,
     hit_points |-> InitialHitPoints, attack_power |-> InitialAttackPower]

ParseCritters(text) ==
    LET lines == Split(text)
        order == SortedTiles(UnitTiles(text))
        IdOf(t) == (CHOOSE i \in 1..Len(order) : order[i] = t) - 1
    IN  [t \in UnitTiles(text) |->
            Critter(IF lines[t[1] + 1][t[2] + 1] = "E" THEN "ELF" ELSE "GOBLIN",
                    t[1], t[2], IdOf(t))]

(***************************************************************************)
(* Game.play: helpers.                                                     *)
(***************************************************************************)
delta == << <<0, -1>>, <<-1, 0>>, <<1, 0>>, <<0, 1>> >>

Neighbours(tile) == [i \in 1..4 |-> <<tile[1] + delta[i][1], tile[2] + delta[i][2]>>]

NeighbourSet(tile) == {Neighbours(tile)[i] : i \in 1..4}

\* the range test of can_be_occupied, as written (<=, and the first row's length)
RangeTest(board, tile) ==
    /\ 0 <= tile[1] /\ tile[1] <= Len(board)
    /\ 0 <= tile[2] /\ tile[2] <= Len(board[1])

\* can_be_occupied raises IndexError: the range test passed and _board[x][y]
\* indexes past the end of the board or of row x
RaisesIndexError(board, tile) ==
    /\ RangeTest(board, tile)
    /\ \/ tile[1] >= Len(board)
       \/ tile[2] >= Len(board[tile[1] + 1])


\* mutant: can_be_occupied without the test for a unit on the tile
CanBeOccupiedIgnoringUnits(board, crit, tile) ==
    /\ RangeTest(board, tile)
    /\ board[tile[1] + 1][tile[2] + 1] = "FLOOR"

\* mutant: the units are looked up where they stood when the round began
CanBeOccupiedAtRoundStart(board, crit, tile) ==
    /\ RangeTest(board, tile)
    /\ board[tile[1] + 1][tile[2] + 1] = "FLOOR"
    /\ tile \notin DOMAIN round_log.start

\* can_be_occupied, where it does not raise
CanBeOccupied(board, crit, tile) ==
    /\ RangeTest(board, tile)
    /\ board[tile[1] + 1][tile[2] + 1] = "FLOOR"
    /\ tile \notin DOMAIN crit

\* adjacent_enemies: in the order of delta
AdjacentEnemies(crit, tile, race) ==
    SelectSeq(Neighbours(tile), LAMBDA n : n \in DOMAIN crit /\ crit[n].race # race)

\* sorted(adjacent_enemies(...), key=hit points)
SortedAdjacentEnemies(crit, tile, race) ==
    StableSort(AdjacentEnemies(crit, tile, race),
               [t \in DOMAIN crit |-> crit[t].hit_points])


(***************************************************************************)
(* Game.play, Case 2: the search for the tile to step to.                  *)
(* A search result is [best |-> set of <<first step, distance, tile>>,     *)
(* err |-> whether a call of can_be_occupied raised IndexError].  The      *)
(* source keeps best_moves as a list and each level of the search as a     *)
(* list in the iteration order of a set; the move taken is selected from   *)
(* best_moves by sorting, so the orders do not show in the result.         *)
(***************************************************************************)
\* the while loop: one level of the search per iteration
RECURSIVE SearchLevels(_, _, _, _, _, _, _)
SearchLevels(board, crit, race, move, stack, covered, distance) ==
    LET found     == {t \in stack : Len(AdjacentEnemies(crit, t, race)) > 0}
        covered2  == covered \cup stack
        new_tiles == (UNION {NeighbourSet(t) : t \in stack \ found}) \ covered2
        err       == \E t \in new_tiles : RaisesIndexError(board, t)
        new_stack == {t \in new_tiles : CanBeOccupied(board, crit, t)}
        best      == {<<move, distance, t>> : t \in found}
    IN  IF err THEN [best |-> {}, err |-> TRUE]
        ELSE IF found # {} \/ new_stack = {} THEN [best |-> best, err |-> FALSE]
        ELSE SearchLevels(board, crit, race, move, new_stack, covered2, distance + 1)

\* the body of `for move in moves`
SearchFromMove(board, crit, pos, race, moves, move) ==
    LET first   == IF Len(AdjacentEnemies(crit, move, race)) > 0
                   THEN {<<move, 1, move>>} ELSE {}
        covered == moves \cup {pos}
        around  == NeighbourSet(move) \ covered
        err     == \E t \in around : RaisesIndexError(board, t)
        stack   == {t \in around : CanBeOccupied(board, crit, t)}
    IN  IF err THEN [best |-> {}, err |-> TRUE]
        ELSE LET rest == SearchLevels(board, crit, race, move, stack, covered, 2)
             IN  [best |-> first \cup rest.best, err |-> rest.err]

\* best_moves after the loop over the moves
BestMoves(board, crit, pos, race) ==
    LET err0  == \E t \in NeighbourSet(pos) : RaisesIndexError(board, t)
        moves == {t \in NeighbourSet(pos) : CanBeOccupied(board, crit, t)}
    IN  IF err0 THEN [best |-> {}, err |-> TRUE]
        ELSE LET res == [m \in moves |-> SearchFromMove(board, crit, pos, race, moves, m)]
             IN  [best |-> UNION {res[m].best : m \in moves},
                  err  |-> \E m \in moves : res[m].err]

\* mutant: the unit goes the whole path, to the destination tile
BestMoveToDestination(best_moves) ==
    LET min_dist == CHOOSE d \in {b[2] : b \in best_moves} :
                        \A b \in best_moves : d <= b[2]
    IN  MinTile({b[3] : b \in {c \in best_moves : c[2] = min_dist}})

\* the three filters of best_moves; the first step taken
BestMove(best_moves) ==
    LET min_dist == CHOOSE d \in {b[2] : b \in best_moves} :
                        \A b \in best_moves : d <= b[2]
        nearest  == {b \in best_moves : b[2] = min_dist}
        dest     == MinTile({b[3] : b \in nearest})
        to_dest  == {b \in nearest : b[3] = dest}
    IN  MinTile({b[1] : b \in to_dest})


\* mutant: the move without `del critters[(critter.x, critter.y)]`
MoveCritterKeepingOldKey(crit, pos, best_move) ==
    [t \in DOMAIN crit \cup {best_move} |->
        IF t = best_move
        THEN [crit[pos] EXCEPT !.x = best_move[1], !.y = best_move[2]]
        ELSE crit[t]]

\* mutant: the move without `critter.x, critter.y = best_move`
MoveCritterStalePosition(crit, pos, best_move) ==
    [t \in (DOMAIN crit \cup {best_move}) \ {pos} |->
        IF t = best_move THEN crit[pos] ELSE crit[t]]

\* critters after `critters[best_move] = critter; del critters[(x, y)];
\* critter.x, critter.y = best_move`
MoveCritter(crit, pos, best_move) ==
    LET critter  == crit[pos]
        assigned == [t \in DOMAIN crit \cup {best_move} |->
                        IF t = best_move THEN critter ELSE crit[t]]
        deleted  == [t \in DOMAIN assigned \ {<<critter.x, critter.y>>} |-> assigned[t]]
    IN  [t \in DOMAIN deleted |->
            IF deleted[t].id = critter.id
            THEN [deleted[t] EXCEPT !.x = best_move[1], !.y = best_move[2]]
            ELSE deleted[t]]

\* mutant: the attack without `del critters[...]`
AttackCritterKeepingDead(crit, power, key) ==
    [crit EXCEPT ![key].hit_points = @ - power]

\* critters after `enemy.hit_points -= power; if enemy.hit_points <= 0: del ...`
AttackCritter(crit, power, key) ==
    LET enemy == [crit[key] EXCEPT !.hit_points = @ - power]
        hit   == [crit EXCEPT ![key] = enemy]
    IN  IF enemy.hit_points <= 0
        THEN [t \in DOMAIN hit \ {<<enemy.x, enemy.y>>} |-> hit[t]]
        ELSE hit


(***************************************************************************)
(* The map texts the model runs: every grid of at most MaxRows x MaxCols   *)
(* symbols with at most MaxUnits units and at most MaxWalls symbols that   *)
(* are not floor, as it stands and enclosed in a border of '#'.            *)
(***************************************************************************)
Cells(R, C) == (0..(R - 1)) \X (0..(C - 1))

\* the R x C grids with at most n symbols other than '.'
Layouts(R, C, n) ==
    UNION {[P -> {"E", "G", "#", "x"}] :
           P \in {P \in SUBSET Cells(R, C) : Cardinality(P) <= n}}

SymbolAt(layout, t) == IF t \in DOMAIN layout THEN layout[t] ELSE "."

RECURSIVE JoinLines(_)
JoinLines(lines) ==
    IF Len(lines) = 1 THEN lines[1]
    ELSE lines[1] \o <<"\n">> \o JoinLines(Tail(lines))

BareText(layout, R, C) ==
    JoinLines([r \in 1..R |-> [c \in 1..C |-> SymbolAt(layout, <<r - 1, c - 1>>)]])

EnclosedText(layout, R, C) ==
    JoinLines([r \in 1..(R + 2) |-> [c \in 1..(C + 2) |->
        IF r \in {1, R + 2} \/ c \in {1, C + 2} THEN "#"
        ELSE SymbolAt(layout, <<r - 2, c - 2>>)]])

Maps ==
    UNION {UNION {{BareText(l, s[1], s[2]), EnclosedText(l, s[1], s[2])} :
                  l \in Layouts(s[1], s[2], MaxPieces)} :
           s \in {s \in (1..MaxRows) \X (1..MaxCols) : s[1] * s[2] <= MaxCells}}

(***************************************************************************)
(* Views of the occupancy map.                                             *)
(***************************************************************************)
Ids(crit) == {crit[t].id : t \in DOMAIN crit}

KeyOf(crit, id) == CHOOSE t \in DOMAIN crit : crit[t].id = id

ElfKeys(crit) == {t \in DOMAIN crit : crit[t].race = "ELF"}

Enemies(crit, race) == {t \in DOMAIN crit : crit[t].race # race}


\* mutant: the hit points of the elves only
OutcomeOfElves(crit, rounds) ==
    <<rounds * SumOver([t \in DOMAIN crit |-> crit[t].hit_points], ElfKeys(crit)),
      Cardinality(ElfKeys(crit))>>

\* the value play() returns
Outcome(crit, rounds) ==
    <<rounds * SumOver([t \in DOMAIN crit |-> crit[t].hit_points], DOMAIN crit),
      Cardinality(ElfKeys(crit))>>

NoStep == [kind |-> "none", id |-> -1, from |-> <<0, 0>>, target |-> <<0, 0>>,
           pre |-> <<>>]

NoRound == [start |-> <<>>, turns |-> <<>>]

(***************************************************************************)
(* The state machine.                                                      *)
(***************************************************************************)
Init ==
    /\ data \in Maps
    /\ self_board = ParseBoard(data)
    /\ self_critters = ParseCritters(data)
    /\ pc = "idle"
    /\ mode = None
    /\ calls = 0
    /\ arg_critters = <<>>
    /\ attack_power = 0
    /\ critters = <<>>
    /\ critters_obj = "own"
    /\ num_rounds = 0
    /\ critter_order = <<>>
    /\ idx = 0
    /\ all_units_acted = TRUE
    /\ enemy_to_attack = None
    /\ ret = None
    /\ returned = <<>>
    /\ trials = <<>>
    /\ round_log = NoRound
    /\ full_rounds = 0
    /\ last = NoStep
    /\ OtherDaysUnused


\* mutant: no copy is made, `critters` names the object it was given
NoCopy(source) == source

\* deepcopy(source): the object the result names, a fresh one
Deepcopy(source) == "own"

\* an assignment through `critters` reaches the object it names
StoredAfter(new) == IF critters_obj = "self" THEN new ELSE self_critters

ArgumentAfter(new) == IF critters_obj = "arg" THEN new ELSE arg_critters


\* mutant: the turn order by the creation order of the units (their ids)
TurnOrderById(crit) ==
    [i \in 1..Cardinality(DOMAIN crit) |->
        CHOOSE id \in Ids(crit) : Cardinality({o \in Ids(crit) : o < id}) = i - 1]

\* play: the head of the while loop: critter_order of the round
TurnOrder(crit) ==
    [i \in 1..Cardinality(DOMAIN crit) |-> crit[SortedTiles(DOMAIN crit)[i]].id]


\* mutant: the round is counted whether or not the for loop was left early
CountRoundAlways(acted, rounds) == rounds + 1

\* play: `if all_units_acted: num_rounds += 1`
CountRound(acted, rounds) == IF acted THEN rounds + 1 ELSE rounds


\* mutant: the survivors compared with the number of units, not of elves
AllUnitsSurvived(pop, units) == pop = Cardinality(DOMAIN units)

\* mutant: the survivors are not more than the elves
NotMoreThanElves(pop, units) == pop <= Cardinality(ElfKeys(units))

\* determine_elf_strength: `if pop == len(elves)`
AllElvesSurvived(pop, units) == pop = Cardinality(ElfKeys(units))

\* play() is entered: the copy of the units, num_rounds = 0, and the head of
\* the first round
EnterPlay(units, source) ==
    /\ critters' = units
    /\ critters_obj' = Deepcopy(source)
    /\ num_rounds' = 0
    /\ critter_order' = TurnOrder(units)
    /\ idx' = 1
    /\ all_units_acted' = TRUE
    /\ enemy_to_attack' = None
    /\ round_log' = [start |-> units, turns |-> <<>>]
    /\ full_rounds' = 0
    /\ last' = [NoStep EXCEPT !.kind = "round", !.pre = units]
    /\ pc' = "turn"

\* the caller runs Game.play(), for the first time or again
CallPlay ==
    /\ pc = "idle"
    /\ calls < MaxCalls
    /\ calls' = calls + 1
    /\ mode' = "play"
    /\ EnterPlay(self_critters, "self")
    /\ UNCHANGED <<other_days, data, self_board, self_critters, arg_critters, attack_power,
                   ret, returned, trials>>

\* the caller, after part 1 (play), runs Game.determine_elf_strength() on the
\* same Game: up to the while loop
CallStrength ==
    /\ pc = "idle"
    /\ 0 < calls /\ calls < MaxCalls
    /\ calls' = calls + 1
    /\ mode' = "strength"
    /\ attack_power' = InitialAttackPower
    /\ arg_critters' = self_critters
    /\ trials' = <<>>
    /\ pc' = "trial"
    /\ UNCHANGED <<other_days, data, self_board, self_critters, critters, critters_obj,
                   num_rounds, critter_order, idx, all_units_acted,
                   enemy_to_attack, ret, returned, round_log, full_rounds, last>>

\* mutant: every unit is given the power
WithPowerForAll(units, power) ==
    [t \in DOMAIN units |-> [units[t] EXCEPT !.attack_power = power]]

\* determine_elf_strength: `for e in elves: e.attack_power = attack_power`
WithElfPower(units, power) ==
    [t \in DOMAIN units |->
        IF units[t].race = "ELF"
        THEN [units[t] EXCEPT !.attack_power = power]
        ELSE units[t]]

\* determine_elf_strength: one more trial, up to the entry of play(critters)
Trial ==
    /\ pc = "trial"
    /\ attack_power < MaxPower
    /\ attack_power' = attack_power + 1
    /\ arg_critters' = WithElfPower(arg_critters, attack_power + 1)
    /\ EnterPlay(arg_critters', "arg")
    /\ UNCHANGED <<other_days, data, self_board, self_critters, mode, calls, ret, returned, trials>>

InTurn == pc = "turn" /\ idx <= Len(critter_order)

Alive == critter_order[idx] \in Ids(critters)

Pos == KeyOf(critters, critter_order[idx])

TurnComes == round_log' = [round_log EXCEPT !.turns = Append(@, critter_order[idx])]

\* play: the unit whose turn it is was killed
SkipDead ==
    /\ InTurn
    /\ ~Alive
    /\ idx' = idx + 1
    /\ last' = [NoStep EXCEPT !.kind = "skip", !.id = critter_order[idx], !.pre = critters]
    /\ UNCHANGED <<other_days, data, self_board, self_critters, pc, mode, calls, arg_critters,
                   attack_power, critters, critters_obj, num_rounds, critter_order,
                   all_units_acted, enemy_to_attack, ret, returned, trials,
                   round_log, full_rounds>>

\* play: the acting unit has no enemy left; the loops are left and play returns
Stop ==
    /\ InTurn
    /\ Alive
    /\ Enemies(critters, critters[Pos].race) = {}
    /\ all_units_acted' = FALSE
    /\ num_rounds' = CountRound(FALSE, num_rounds)
    /\ ret' = Outcome(critters, num_rounds')
    /\ pc' = "returned"
    /\ TurnComes
    /\ last' = [NoStep EXCEPT !.kind = "stop", !.id = critter_order[idx], !.from = Pos,
                              !.pre = critters]
    /\ UNCHANGED <<other_days, data, self_board, self_critters, mode, calls, arg_critters,
                   attack_power, critters, critters_obj, critter_order, idx,
                   enemy_to_attack, returned, trials, full_rounds>>

\* play, Case 1: an enemy is adjacent; the weakest is attacked
AttackAdjacent ==
    /\ InTurn
    /\ Alive
    /\ Enemies(critters, critters[Pos].race) # {}
    /\ LET critter     == critters[Pos]
           adj_enemies == SortedAdjacentEnemies(critters, Pos, critter.race)
       IN  /\ Len(adj_enemies) > 0
           /\ critters' = AttackCritter(critters, critter.attack_power, adj_enemies[1])
           /\ last' = [kind |-> "attack", id |-> critter.id, from |-> Pos,
                       target |-> adj_enemies[1], pre |-> critters]
    /\ self_critters' = StoredAfter(critters')
    /\ arg_critters' = ArgumentAfter(critters')
    /\ idx' = idx + 1
    /\ TurnComes
    /\ UNCHANGED <<other_days, data, self_board, pc, mode, calls, attack_power, critters_obj,
                   num_rounds, critter_order, all_units_acted, enemy_to_attack,
                   ret, returned, trials, full_rounds>>

\* play, Case 2: no enemy is adjacent; the search, and the step if there is one
Move ==
    /\ InTurn
    /\ Alive
    /\ Enemies(critters, critters[Pos].race) # {}
    /\ LET critter == critters[Pos]
           search  == BestMoves(self_board, critters, Pos, critter.race)
       IN  /\ Len(AdjacentEnemies(critters, Pos, critter.race)) = 0
           /\ IF search.err
              THEN /\ pc' = "error"
                   /\ last' = [NoStep EXCEPT !.kind = "raise", !.id = critter.id,
                                             !.from = Pos, !.pre = critters]
                   /\ UNCHANGED <<critters, idx, enemy_to_attack>>
              ELSE IF search.best = {}
              THEN /\ pc' = "turn"
                   /\ idx' = idx + 1
                   /\ last' = [NoStep EXCEPT !.kind = "stay", !.id = critter.id,
                                             !.from = Pos, !.pre = critters]
                   /\ UNCHANGED <<critters, enemy_to_attack>>
              ELSE LET best_move   == BestMove(search.best)
                       moved       == MoveCritter(critters, Pos, best_move)
                       adj_enemies == SortedAdjacentEnemies(moved, best_move, critter.race)
                   IN  /\ critters' = moved
                       /\ enemy_to_attack' = IF Len(adj_enemies) > 0
                                             THEN adj_enemies[1] ELSE None
                       /\ pc' = "moved"
                       /\ last' = [NoStep EXCEPT !.kind = "move", !.id = critter.id,
                                                 !.from = Pos, !.pre = critters]
                       /\ UNCHANGED idx
    /\ self_critters' = StoredAfter(critters')
    /\ arg_critters' = ArgumentAfter(critters')
    /\ TurnComes
    /\ UNCHANGED <<other_days, data, self_board, mode, calls, attack_power, critters_obj,
                   num_rounds, critter_order, all_units_acted, ret, returned,
                   trials, full_rounds>>

\* play: the attack at the end of a turn in which the unit moved
AttackAfterMove ==
    /\ pc = "moved"
    /\ IF enemy_to_attack # None
       THEN /\ critters' = AttackCritter(critters, critters[Pos].attack_power,
                                         enemy_to_attack)
            /\ last' = [kind |-> "attack", id |-> critter_order[idx], from |-> Pos,
                        target |-> enemy_to_attack, pre |-> critters]
       ELSE /\ last' = [NoStep EXCEPT !.kind = "rest", !.id = critter_order[idx],
                                      !.from = Pos, !.pre = critters]
            /\ UNCHANGED critters
    /\ self_critters' = StoredAfter(critters')
    /\ arg_critters' = ArgumentAfter(critters')
    /\ enemy_to_attack' = None
    /\ idx' = idx + 1
    /\ pc' = "turn"
    /\ UNCHANGED <<other_days, data, self_board, mode, calls, attack_power, critters_obj,
                   num_rounds, critter_order, all_units_acted, ret, returned,
                   trials, round_log, full_rounds>>

\* play: the for loop ran to its end; the round is counted and the next begins
EndRound ==
    /\ pc = "turn"
    /\ idx > Len(critter_order)
    /\ num_rounds < MaxRounds
    /\ num_rounds' = CountRound(all_units_acted, num_rounds)
    /\ critter_order' = TurnOrder(critters)
    /\ idx' = 1
    /\ all_units_acted' = TRUE
    /\ round_log' = [start |-> critters, turns |-> <<>>]
    /\ full_rounds' = full_rounds + 1
    /\ last' = [NoStep EXCEPT !.kind = "round", !.pre = critters]
    /\ UNCHANGED <<other_days, data, self_board, self_critters, pc, mode, calls, arg_critters,
                   attack_power, critters, critters_obj, enemy_to_attack, ret,
                   returned, trials>>

PlayLocals == <<critters, critters_obj, num_rounds, critter_order, idx,
                all_units_acted, enemy_to_attack, round_log, full_rounds, last>>

\* play() has returned to the caller of the Game
ReturnToCaller ==
    /\ pc = "returned"
    /\ mode = "play"
    /\ returned' = Append(returned, <<"play", ret>>)
    /\ pc' = "idle"
    /\ UNCHANGED <<other_days, data, self_board, self_critters, mode, calls, arg_critters,
                   attack_power, ret, trials, PlayLocals>>

\* play() has returned to determine_elf_strength: `if pop == len(elves)`
ReturnToStrength ==
    /\ pc = "returned"
    /\ mode = "strength"
    /\ trials' = Append(trials,
                        [powers |-> {arg_critters[t].attack_power : t \in ElfKeys(arg_critters)},
                         score  |-> ret[1],
                         alive  |-> {critters[t].id : t \in ElfKeys(critters)}])
    /\ IF AllElvesSurvived(ret[2], arg_critters)
       THEN /\ returned' = Append(returned, <<"strength", ret[1]>>)
            /\ pc' = "idle"
       ELSE /\ pc' = "trial"
            /\ UNCHANGED returned
    /\ UNCHANGED <<other_days, data, self_board, self_critters, mode, calls, arg_critters,
                   attack_power, ret, PlayLocals>>

Next ==
    \/ CallPlay
    \/ CallStrength
    \/ Trial
    \/ SkipDead
    \/ Stop
    \/ AttackAdjacent
    \/ Move
    \/ AttackAfterMove
    \/ EndRound
    \/ ReturnToCaller
    \/ ReturnToStrength

Spec == Init /\ [][Next]_vars

(***************************************************************************)
(* Reference definitions the claims are stated with.  They are written     *)
(* from the rules the claims give, not from the code.                      *)
(***************************************************************************)
ActingKinds == {"attack", "move", "stay", "rest", "raise"}

RaceOf(crit, id) == crit[KeyOf(crit, id)].race

GoblinKeys(crit) == {t \in DOMAIN crit : crit[t].race = "GOBLIN"}

RecordedPositions(crit) == {<<crit[t].x, crit[t].y>> : t \in DOMAIN crit}

InBoard(board, t) ==
    /\ 0 <= t[1] /\ t[1] < Len(board)
    /\ 0 <= t[2] /\ t[2] < Len(board[t[1] + 1])

\* an unoccupied floor tile of the board
FreeTile(board, crit, t) ==
    /\ InBoard(board, t)
    /\ board[t[1] + 1][t[2] + 1] = "FLOOR"
    /\ t \notin DOMAIN crit

HasEnemyBeside(crit, t, race) ==
    \E n \in NeighbourSet(t) : n \in DOMAIN crit /\ crit[n].race # race

\* <<tile, distance>> for every tile reachable from the frontier through free tiles
RECURSIVE Flood(_, _, _, _, _)
Flood(board, crit, frontier, seen, d) ==
    IF frontier = {} THEN {}
    ELSE LET next == {n \in UNION {NeighbourSet(t) : t \in frontier} :
                         FreeTile(board, crit, n) /\ n \notin seen}
         IN  {<<t, d>> : t \in frontier} \cup Flood(board, crit, next, seen \cup next, d + 1)

DistancesFrom(board, crit, src) == Flood(board, crit, {src}, {src}, 0)

\* the tile the unit at pos is on after its move, by the rules of the puzzle
ReferenceStep(board, crit, pos, race) ==
    LET dists    == DistancesFrom(board, crit, pos)
        in_range == {p \in dists : p[2] >= 1 /\ HasEnemyBeside(crit, p[1], race)}
    IN  IF in_range = {} THEN pos
        ELSE LET D     == CHOOSE d \in {p[2] : p \in in_range} :
                              \A p \in in_range : d <= p[2]
                 dest  == MinTile({p[1] : p \in {q \in in_range : q[2] = D}})
                 back  == DistancesFrom(board, crit, dest)
                 first == {n \in NeighbourSet(pos) :
                              FreeTile(board, crit, n) /\ <<n, D - 1>> \in back}
             IN  MinTile(first)

\* the enemy the unit at pos attacks, by the rules of the puzzle
ReferenceTarget(crit, pos, race) ==
    LET adj    == {n \in NeighbourSet(pos) : n \in DOMAIN crit /\ crit[n].race # race}
        fewest == {n \in adj : \A m \in adj : crit[n].hit_points <= crit[m].hit_points}
    IN  MinTile(fewest)

RECURSIVE HitPointsOfIds(_, _)
HitPointsOfIds(crit, n) ==
    IF n < 0 THEN 0
    ELSE (IF n \in Ids(crit) THEN crit[KeyOf(crit, n)].hit_points ELSE 0)
         + HitPointsOfIds(crit, n - 1)

TotalHitPoints(crit) == HitPointsOfIds(crit, Cardinality(DOMAIN self_critters) - 1)

TurnsTaken == {round_log.turns[i] : i \in DOMAIN round_log.turns}

StartTile(id) == KeyOf(round_log.start, id)

HasUnknownSymbol(text) ==
    \E i \in DOMAIN text : text[i] \notin {"#", ".", "E", "G", "\n"}

InPlay == pc \in {"turn", "moved", "returned", "error"}

(***************************************************************************)
(* The claims.                                                             *)
(***************************************************************************)
\* C1: in every state of a simulation, after each single move and each single
\* attack, no two living units are on the same position, and a move goes to a
\* tile that held no unit, so that no unit is overwritten in the occupancy map.
C1_OneUnitPerPosition ==
    InPlay =>
        /\ Cardinality(RecordedPositions(critters)) = Cardinality(DOMAIN critters)
        /\ Cardinality(Ids(critters)) = Cardinality(DOMAIN critters)
        /\ last.kind = "move" =>
              /\ KeyOf(critters, last.id) \notin DOMAIN last.pre
              /\ Ids(critters) = Ids(last.pre)

\* C1 witness: a unit has just moved on a map that holds three living units
C1_Witness ==
    /\ last.kind = "move"
    /\ pc = "moved"
    /\ Cardinality(DOMAIN critters) = 3
    /\ KeyOf(critters, last.id) # last.from

\* C2: the unit attacked is the adjacent enemy with the fewest hit points, and
\* among those tied on fewest hit points the first in reading order.
C2_TargetIsWeakestInReadingOrder ==
    last.kind = "attack" =>
        last.target = ReferenceTarget(last.pre, last.from, RaceOf(last.pre, last.id))

\* C3: in a turn that starts with no enemy adjacent, the unit ends on the tile
\* of the reference choice (nearest tile in range, then destination in reading
\* order, then first step in reading order), or stays if none is reachable.
C3_StepIsReference ==
    last.kind \in {"move", "stay", "raise"} =>
        KeyOf(critters, last.id) =
            ReferenceStep(self_board, last.pre, last.from, RaceOf(last.pre, last.id))

\* C3, the part that holds: the same, for the turns in which no call of
\* can_be_occupied raises
C3_StepIsReferenceUnlessRaised ==
    last.kind \in {"move", "stay"} =>
        KeyOf(critters, last.id) =
            ReferenceStep(self_board, last.pre, last.from, RaceOf(last.pre, last.id))

\* C4: within a round the turns come in reading order of the positions the
\* units held when the round started, whatever moves were made since; a unit
\* acts only while it is alive, and a living unit is never passed over.
C4_TurnOrderFixedAtRoundStart ==
    /\ TurnsTaken \subseteq Ids(round_log.start)
    /\ \A i, j \in DOMAIN round_log.turns :
          i < j => TupleLess(StartTile(round_log.turns[i]), StartTile(round_log.turns[j]))
    /\ last.kind \in ActingKinds \cup {"stop"} => last.id \in Ids(last.pre)
    /\ last.kind = "skip" => last.id \notin Ids(last.pre)
    /\ InPlay /\ round_log.turns # <<>> =>
          \A u \in Ids(critters) :
              TupleLess(StartTile(u), StartTile(round_log.turns[Len(round_log.turns)]))
                  => u \in TurnsTaken
    /\ pc = "turn" /\ idx > Len(critter_order) => Ids(critters) \subseteq TurnsTaken

\* C4 witness: a unit that moved earlier in the round stands, in reading order,
\* after a unit whose turn came later, and a killed unit was skipped
C4_Witness ==
    /\ pc = "turn"
    /\ Len(round_log.turns) >= 2
    /\ \E i, j \in DOMAIN round_log.turns :
          /\ i < j
          /\ round_log.turns[i] \in Ids(critters)
          /\ round_log.turns[j] \in Ids(critters)
          /\ TupleLess(KeyOf(critters, round_log.turns[j]),
                       KeyOf(critters, round_log.turns[i]))

\* C5: play stops at the first turn of a living unit that finds no living
\* enemy, without counting that round; num_rounds counts exactly the rounds
\* whose every turn was taken, the one in which the last unit of the order
\* kills the last enemy included.
C5_RoundCounting ==
    /\ num_rounds = full_rounds
    /\ pc = "returned" => last.kind = "stop"
    /\ last.kind = "stop" =>
          /\ last.id \in Ids(last.pre)
          /\ Enemies(last.pre, RaceOf(last.pre, last.id)) = {}
          /\ pc \in {"returned", "idle", "trial"}
    /\ last.kind \in ActingKinds =>
          Enemies(last.pre, RaceOf(last.pre, last.id)) # {}

\* C5 witness: a round has begun with one faction already gone, so the round in
\* which the last enemy fell was run to its end and counted
C5_Witness ==
    /\ pc = "turn"
    /\ last.kind = "round"
    /\ num_rounds > 0
    /\ ElfKeys(critters) = {} \/ GoblinKeys(critters) = {}
    /\ ElfKeys(round_log.start) # {} \/ GoblinKeys(round_log.start) # {}
    /\ ElfKeys(self_critters) # {} /\ GoblinKeys(self_critters) # {}

\* C6: when play() returns, a faction has no living unit, the first value is
\* the counted rounds times the hit points of the living units, the second the
\* number of living elves.
C6_ReturnedOutcome ==
    pc = "returned" =>
        /\ ElfKeys(critters) = {} \/ GoblinKeys(critters) = {}
        /\ ret[1] = num_rounds * TotalHitPoints(critters)
        /\ ret[2] = Cardinality({i \in Ids(critters) : RaceOf(critters, i) = "ELF"})

\* C6 witness: play() returns after a fight of both factions
C6_Witness ==
    /\ pc = "returned"
    /\ num_rounds > 0
    /\ ret[1] > 0
    /\ Cardinality(DOMAIN critters) = 2

NoUnitAdded ==
    pc \in {"turn", "moved"} =>
        (/\ Ids(critters') \subseteq Ids(critters)
         /\ Cardinality(DOMAIN critters') <= Cardinality(DOMAIN critters))

\* C7: within a simulation the living units only become fewer: no step adds a
\* unit or brings one back, and every living unit is one of the initial map.
C7_LivingUnitsOnlyShrink ==
    /\ [](InPlay => Ids(critters) \subseteq Ids(self_critters))
    /\ [][NoUnitAdded]_vars

\* C7 witness: a unit has been removed while others moved and fought on
C7_Witness ==
    /\ pc = "moved"
    /\ Cardinality(DOMAIN critters) = 2
    /\ Cardinality(DOMAIN self_critters) = 3
    /\ last.kind = "move"

\* C8: determine_elf_strength tries the powers 4, 5, ... in turn and returns the
\* score of the first run at whose end every elf of the map is alive; every run
\* before it ended with an elf dead.
AllElfIds == {self_critters[t].id : t \in ElfKeys(self_critters)}

C8_FirstPowerWithoutLosses ==
    mode = "strength" =>
        /\ \A i \in DOMAIN trials :
              /\ trials[i].powers \subseteq {InitialAttackPower + i}
              /\ trials[i].alive = AllElfIds => i = Len(trials) /\ pc = "idle"
        /\ pc = "idle" =>
              /\ trials # <<>>
              /\ trials[Len(trials)].alive = AllElfIds
              /\ returned[Len(returned)] = <<"strength", trials[Len(trials)].score>>

\* C8 witness: the call returns after more than one trial
C8_Witness ==
    /\ mode = "strength"
    /\ pc = "idle"
    /\ Len(trials) >= 3
    /\ AllElfIds # {}

\* C9 (as claimed): a map text with a symbol other than '#', '.', 'E', 'G' is
\* rejected when the Game is built, and no simulation is started on it.
C9_UnknownSymbolRejected ==
    HasUnknownSymbol(data) => pc = "idle" /\ calls = 0

\* C9 (amended): a map text with a symbol other than '#', '.', 'E', 'G' is not
\* rejected: the Game is built with a Wall tile, and no unit, where the symbol
\* stands, as for '#', and play() runs on it.
C9_UnknownSymbolIsWall ==
    HasUnknownSymbol(data) =>
        LET lines == Split(data)
        IN  /\ Len(self_board) = Len(lines)
            /\ \A r \in DOMAIN lines :
                  /\ Len(self_board[r]) = Len(lines[r])
                  /\ \A c \in DOMAIN lines[r] :
                        lines[r][c] \notin {".", "E", "G"} =>
                            /\ self_board[r][c] = "WALL"
                            /\ <<r - 1, c - 1>> \notin DOMAIN self_critters
                            /\ <<r - 1, c - 1>> \notin DOMAIN critters

\* C9 witness: a simulation is under way on a map with an unknown symbol
C9_Witness ==
    /\ HasUnknownSymbol(data)
    /\ pc = "turn"
    /\ num_rounds > 0
    /\ last.kind = "attack"

GameUnchanged ==
    /\ self_board' = self_board
    /\ self_critters' = self_critters
    /\ pc \in {"turn", "moved", "returned"} => arg_critters' = arg_critters

\* C10: no step of play() changes the stored board, the stored units or the
\* unit dictionary passed to it, and successive play() calls on a Game return
\* the same pair.
C10_PlayLeavesGameUnchanged ==
    /\ [][GameUnchanged]_vars
    /\ [](\A i, j \in DOMAIN returned :
            returned[i][1] = "play" /\ returned[j][1] = "play" => returned[i] = returned[j])

\* C10 witness: play() has returned twice on a Game, after a fight
C10_Witness ==
    /\ Len(returned) = 2
    /\ returned[1][1] = "play"
    /\ returned[2][1] = "play"
    /\ returned[1][2][1] > 0


(***************************************************************************)
(* Day 11 (src/day_11.py): SummedAreaTable.                                *)
(*                                                                         *)
(* __init__ fills a 300 x 300 table and reads table[i][0] and table[0][i]  *)
(* for every i < 300, and its second loop writes sa_table[row][col] for    *)
(* every row < len(table), col < len(table[0]): the tables it accepts are  *)
(* the 300 x 300 ones.  GridSize stands for that 300.  Tables are          *)
(* sequences of rows; the source's table[i][j] is table[i + 1][j + 1].     *)
(***************************************************************************)
GridSize == 3

\* the values of the cells of the tables of the model
CellValues == {0, 1}

Tables == [1..GridSize -> [1..GridSize -> CellValues]]

\* sa_table[row][col] as __init__ computes it
RECURSIVE SummedEntry(_, _, _)
SummedEntry(tbl, row, col) ==
    IF row = 0 /\ col = 0 THEN tbl[1][1]
    ELSE IF col = 0 THEN tbl[row + 1][1] + SummedEntry(tbl, row - 1, 0)
    ELSE IF row = 0 THEN tbl[1][col + 1] + SummedEntry(tbl, 0, col - 1)
    ELSE tbl[row + 1][col + 1] + SummedEntry(tbl, row, col - 1)
         + SummedEntry(tbl, row - 1, col) - SummedEntry(tbl, row - 1, col - 1)

SummedTable(tbl) ==
    [row \in 1..GridSize |-> [col \in 1..GridSize |-> SummedEntry(tbl, row - 1, col - 1)]]

\* SummedAreaTable.sum_of(x, y, width, height)
SumOf(x, y, width, height) ==
    LET T(i, j) == sa_table[i + 1][j + 1]
    IN  IF x < 0 \/ x >= sa_rows \/ y < 0 \/ y >= sa_cols THEN "ValueError"
        ELSE IF height <= 0 \/ width <= 0 THEN "ValueError"
        ELSE IF x + height > sa_rows \/ y + width > sa_cols THEN "ValueError"
        ELSE IF x = 0 THEN T(0, y + width - 1) - T(0, y)
        ELSE IF y = 0 THEN T(x + height - 1, 0) - T(x, 0)
        ELSE T(x - 1, y - 1) + T(x + height - 1, y + width - 1)
             - T(x - 1, y + width - 1) - T(x + height - 1, y - 1)

Day11Init ==
    /\ pc11 = "new"
    /\ table \in Tables
    /\ sa_rows = 0
    /\ sa_cols = 0
    /\ sa_table = <<>>
    /\ rectangle = <<>>
    /\ area_sum = None
    /\ NotDay11Unused

\* SummedAreaTable(table)
Construct ==
    /\ pc11 = "new"
    /\ pc11' = "built"
    /\ sa_rows' = Len(table)
    /\ sa_cols' = Len(table[1])
    /\ sa_table' = SummedTable(table)
    /\ UNCHANGED <<table, rectangle, area_sum, not_day11>>

\* a call of sum_of, with arguments inside and outside the table; sum_of
\* changes nothing of the object, so one call is followed
CallSumOf ==
    /\ pc11 = "built"
    /\ pc11' = "summed"
    /\ \E x, y \in (-1)..GridSize, width, height \in 0..GridSize :
          /\ rectangle' = <<x, y, width, height>>
          /\ area_sum' = SumOf(x, y, width, height)
    /\ UNCHANGED <<table, sa_rows, sa_cols, sa_table, not_day11>>

Day11Next == Construct \/ CallSumOf

Day11Spec == Day11Init /\ [][Day11Next]_day11_vars

\* the rectangle passes the argument checks of sum_of
AcceptedRectangle(r) ==
    /\ 0 <= r[1] /\ r[1] < sa_rows /\ 0 <= r[2] /\ r[2] < sa_cols
    /\ r[3] >= 1 /\ r[4] >= 1
    /\ r[1] + r[4] <= sa_rows /\ r[2] + r[3] <= sa_cols

\* the sum of table[i][j] over x <= i < x + height, y <= j < y + width
RECURSIVE RowSum(_, _, _, _)
RowSum(tbl, i, j, width) ==
    IF width = 0 THEN 0 ELSE tbl[i + 1][j + 1] + RowSum(tbl, i, j + 1, width - 1)

RECURSIVE RectangleSum(_, _, _, _, _)
RectangleSum(tbl, x, y, width, height) ==
    IF height = 0 THEN 0
    ELSE RowSum(tbl, x, y, width) + RectangleSum(tbl, x + 1, y, width, height - 1)

\* C11: for every rectangle the argument checks accept, first row and first
\* column included, sum_of returns the sum of the table over the rectangle.
C11_SumOfIsRectangleSum ==
    (pc11 = "summed" /\ AcceptedRectangle(rectangle))
        => area_sum = RectangleSum(table, rectangle[1], rectangle[2],
                                   rectangle[3], rectangle[4])

\* what does hold: the sum is right for the rectangles that touch neither
\* the first row nor the first column
C11_SumOfInnerRectangle ==
    (pc11 = "summed" /\ AcceptedRectangle(rectangle)
        /\ rectangle[1] > 0 /\ rectangle[2] > 0)
        => area_sum = RectangleSum(table, rectangle[1], rectangle[2],
                                   rectangle[3], rectangle[4])


(***************************************************************************)
(* Day 9 (src/day_09.py): calculate_highest_score.                         *)
(***************************************************************************)
MaxPlayers == 3
MaxMarble == 47

\* Marble(value, left, right); Marble() is its own left and right
Marble(value, left, right) == [value |-> value, left |-> left, right |-> right]

\* the Marble reached from m by `steps` times `.left`
RECURSIVE LeftOf(_, _, _)
LeftOf(heap, m, steps) ==
    IF steps = 0 THEN m ELSE LeftOf(heap, heap[m].left, steps - 1)

\* mutant: six marbles back
LookBackSix(heap, m) == LeftOf(heap, m, 6)

\* for _ in range(7): current_marble = current_marble.left
LookBack(heap, m) == LeftOf(heap, m, 7)

\* mutant: the assignment to .left is not made
SetLeftSkipped(heap, a, b) == heap

\* the heap after a.left = b (an assignment to a field of an object)
SetLeft(heap, a, b) == [heap EXCEPT ![a].left = b]

SetRight(heap, a, b) == [heap EXCEPT ![a].right = b]

MaxOf(S) == CHOOSE v \in S : \A w \in S : w <= v

(***************************************************************************)
(* The marble game by the rules of the docstring, on a circle written as a *)
(* sequence in clockwise order, with the place of the current marble.      *)
(***************************************************************************)
\* the place `by` places clockwise (by > 0) or counter-clockwise of `place`
PlaceFrom(place, by, size) == ((place - 1 + by) % size) + 1

RemoveAt(circle, place) ==
    SubSeq(circle, 1, place - 1) \o SubSeq(circle, place + 1, Len(circle))

\* the circle with `marble` put just after `place`
InsertAfter(circle, place, marble) ==
    SubSeq(circle, 1, place) \o <<marble>> \o SubSeq(circle, place + 1, Len(circle))

\* the game after one more marble, `marble`, taken by `player`; score[q + 1]
\* is the score of player q
RuleTurn(g, marble, player) ==
    LET size == Len(g.circle)
        gone == PlaceFrom(g.current, -7, size)
        one  == PlaceFrom(g.current, 1, size)
    IN  IF marble % 23 = 0
        THEN [circle  |-> RemoveAt(g.circle, gone),
              current |-> IF gone = size THEN 1 ELSE gone,
              score   |-> [g.score EXCEPT ![player + 1] = @ + marble + g.circle[gone]]]
        ELSE [circle  |-> InsertAfter(g.circle, one, marble),
              current |-> one + 1,
              score   |-> g.score]

\* the game before the first marble is taken
RuleStart(players) ==
    [circle |-> <<0>>, current |-> 1, score |-> [q \in 1..players |-> 0]]

\* the player whose turn it is to take `marble`, players 0..(players - 1)
\* taking the marbles 1, 2, ... in rotation
RulePlayer(marble, players) == (marble - 1) % players

Day09Init ==
    /\ pc09 = "loop"
    /\ num_players \in 1..MaxPlayers
    /\ upper_marble \in 0..MaxMarble
    /\ marbles = [m \in {0} |-> Marble(0, 0, 0)]
    /\ current_marble = 0
    /\ scores = [i \in 1..num_players |-> 0]
    /\ current_player = 1
    /\ new_marble = 1
    /\ highest = 0
    /\ game_by_rules = RuleStart(num_players)
    /\ NotDay09Unused

\* one pass of the loop with a multiple of 23
KeepMarble ==
    /\ pc09 = "loop"
    /\ new_marble <= upper_marble
    /\ new_marble % 23 = 0
    /\ LET back == LookBack(marbles, current_marble)
           heap1 == SetRight(marbles, marbles[back].left, marbles[back].right)
           heap2 == SetLeft(heap1, heap1[back].right, heap1[back].left)
       IN  IF current_player >= num_players
           THEN \* scores[current_player]: IndexError
                /\ pc09' = "IndexError"
                /\ current_marble' = back
                /\ UNCHANGED <<marbles, scores, current_player, new_marble>>
           ELSE /\ scores' = [scores EXCEPT ![current_player + 1] =
                                  @ + new_marble + marbles[back].value]
                /\ marbles' = heap2
                /\ current_marble' = heap2[back].right
                /\ current_player' = (current_player + 1) % num_players
                /\ new_marble' = new_marble + 1
                /\ UNCHANGED pc09
    /\ game_by_rules' = RuleTurn(game_by_rules, new_marble,
                                 RulePlayer(new_marble, num_players))
    /\ UNCHANGED <<num_players, upper_marble, highest, not_day09>>

\* one pass of the loop with any other marble
PlaceMarble ==
    /\ pc09 = "loop"
    /\ new_marble <= upper_marble
    /\ new_marble % 23 # 0
    /\ LET one   == marbles[current_marble].right
           two   == marbles[one].right
           heap0 == [v \in DOMAIN marbles \cup {new_marble} |->
                        IF v = new_marble THEN Marble(new_marble, one, two)
                        ELSE marbles[v]]
           \* current_marble.right.right.left = m
           heap1 == SetLeft(heap0, heap0[heap0[current_marble].right].right, new_marble)
           \* current_marble.right.right = m
           heap2 == SetRight(heap1, heap1[current_marble].right, new_marble)
       IN  /\ marbles' = heap2
           /\ current_marble' = new_marble
    /\ current_player' = (current_player + 1) % num_players
    /\ new_marble' = new_marble + 1
    /\ game_by_rules' = RuleTurn(game_by_rules, new_marble,
                                 RulePlayer(new_marble, num_players))
    /\ UNCHANGED <<pc09, num_players, upper_marble, scores, highest, not_day09>>

\* return max(scores)
ReturnHighest ==
    /\ pc09 = "loop"
    /\ new_marble > upper_marble
    /\ highest' = MaxOf({scores[i] : i \in DOMAIN scores})
    /\ pc09' = "done"
    /\ UNCHANGED <<num_players, upper_marble, marbles, current_marble, scores,
                   current_player, new_marble, game_by_rules, not_day09>>

Day09Next == KeepMarble \/ PlaceMarble \/ ReturnHighest

Day09Spec == Day09Init /\ [][Day09Next]_day09_vars


\* C12: for every num_players >= 1 and upper_marble >= 0 the value returned
\* is the highest score of the marble game played by the docstring's rules.
C12_HighestScoreOfTheGame ==
    pc09 # "loop" =>
        /\ pc09 = "done"
        /\ Len(game_by_rules.circle) = 1 + upper_marble - 2 * (upper_marble \div 23)
        /\ highest = MaxOf({game_by_rules.score[q] : q \in 1..num_players})

C12_Witness ==
    /\ pc09 = "done"
    /\ upper_marble >= 46
    /\ num_players = 3
    /\ highest > 46


(***************************************************************************)
(* Day 13 (src/day_13.py): carts on rails.                                 *)
(*                                                                         *)
(* Positions are <<x, y>> = <<row, column>>, 0-based as in the source.     *)
(***************************************************************************)
MaxCarts == 3
MaxTicks == 8

\* process_rails: the Track of a symbol
TrackOf(symbol) ==
    CASE symbol = " " -> "EMPTY"
      [] symbol \in {"|", "^", "v"} -> "NORTH_SOUTH"
      [] symbol \in {"-", ">", "<"} -> "EAST_WEST"
      [] symbol = "/" -> "SLASH"
      [] symbol = "\\" -> "BACKSLASH"
      [] symbol = "+" -> "INTERSECTION"

\* process_rails: the Direction of a cart symbol
DirectionOf(symbol) ==
    CASE symbol = "^" -> "NORTH"
      [] symbol = ">" -> "EAST"
      [] symbol = "v" -> "SOUTH"
      [] symbol = "<" -> "WEST"

\* the positions of a text, a sequence of lines
TextPositions(lines) ==
    UNION {{<<x - 1, y - 1>> : y \in 1..Len(lines[x])} : x \in 1..Len(lines)}

\* Cart(xpos, ypos, dir), the id taken from the counter Cart.id
Cart(id, xpos, ypos, dir) ==
    [id |-> id, x |-> xpos, y |-> ypos, dir |-> dir, intersection_state |-> 0,
     collision_state |-> FALSE]

\* process_rails(data): the rails
ProcessRails(text) ==
    LET lines == Split(text)
    IN  [q \in TextPositions(lines) |-> TrackOf(lines[q[1] + 1][q[2] + 1])]

\* process_rails(data): the carts, made in the order of the text
ProcessCarts(text) ==
    LET lines == Split(text)
        at(q) == lines[q[1] + 1][q[2] + 1]
        held  == {q \in TextPositions(lines) : at(q) \in {"^", ">", "v", "<"}}
        made(q) == Cardinality({r \in held : TupleLess(r, q)})
    IN  [q \in held |-> Cart(made(q), q[1], q[2], DirectionOf(at(q)))]

\* Cart.tick: the direction after the track piece under the cart
SlashTurn == [NORTH |-> "EAST", EAST |-> "NORTH", SOUTH |-> "WEST", WEST |-> "SOUTH"]

BackslashTurn == [NORTH |-> "WEST", EAST |-> "SOUTH", SOUTH |-> "EAST", WEST |-> "NORTH"]

LeftTurn == [NORTH |-> "WEST", EAST |-> "NORTH", SOUTH |-> "EAST", WEST |-> "SOUTH"]

RightTurn == [NORTH |-> "EAST", EAST |-> "SOUTH", SOUTH |-> "WEST", WEST |-> "NORTH"]

\* Cart.tick: the cart one tile further in the direction dir, heading dir
Advance(cart, dir) ==
    CASE dir = "NORTH" -> [cart EXCEPT !.x = @ - 1, !.dir = dir]
      [] dir = "SOUTH" -> [cart EXCEPT !.x = @ + 1, !.dir = dir]
      [] dir = "EAST"  -> [cart EXCEPT !.y = @ + 1, !.dir = dir]
      [] dir = "WEST"  -> [cart EXCEPT !.y = @ - 1, !.dir = dir]

\* Cart.tick: the cart heads in a direction its straight track does not
\* have, and ValueError is raised
IllegalHeading(cart, track) ==
    \/ track = "NORTH_SOUTH" /\ cart.dir \notin {"NORTH", "SOUTH"}
    \/ track = "EAST_WEST" /\ cart.dir \notin {"EAST", "WEST"}

\* Cart.tick up to the update of carts: the cart after its move
Drive(cart, track) ==
    CASE track = "NORTH_SOUTH" -> Advance(cart, cart.dir)
      [] track = "EAST_WEST" -> Advance(cart, cart.dir)
      [] track = "SLASH" -> Advance(cart, SlashTurn[cart.dir])
      [] track = "BACKSLASH" -> Advance(cart, BackslashTurn[cart.dir])
      [] track = "INTERSECTION" ->
            LET turned == CASE cart.intersection_state = 0 -> LeftTurn[cart.dir]
                            [] cart.intersection_state = 1 -> cart.dir
                            [] cart.intersection_state = 2 -> RightTurn[cart.dir]
            IN  [Advance(cart, turned) EXCEPT
                    !.intersection_state = (cart.intersection_state + 1) % 3]
      [] track = "EMPTY" -> cart

\* The track plans of the model: two loops that share an intersection, a
\* straight line open at both ends, and two open lines that cross
FigureEight ==
    << <<"/",  "-", "\\", " ", " ">>,
       <<"|",  " ", "|",  " ", " ">>,
       <<"\\", "-", "+",  "-", "\\">>,
       <<" ",  " ", "|",  " ", "|">>,
       <<" ",  " ", "\\", "-", "/">> >>

StraightLine == << <<"-", "-", "-", "-", "-">> >>

Crossing ==
    << <<" ", " ", "|", " ", " ">>,
       <<" ", " ", "|", " ", " ">>,
       <<"-", "-", "+", "-", "-">>,
       <<" ", " ", "|", " ", " ">>,
       <<" ", " ", "|", " ", " ">> >>

TrackPlans == {FigureEight, StraightLine, Crossing}

\* the cart symbols that stand for a straight piece of track
CartSymbolsOn(symbol) ==
    CASE symbol = "|" -> {"^", "v"}
      [] symbol = "-" -> {"<", ">"}
      [] OTHER -> {}

\* the ways of putting 1..MaxCarts carts on the straight pieces of a plan
Placements(plan) ==
    LET straight == {q \in TextPositions(plan) : plan[q[1] + 1][q[2] + 1] \in {"|", "-"}}
        places   == {P \in SUBSET straight : Cardinality(P) \in 1..MaxCarts}
    IN  UNION {{f \in [P -> {"^", "v", "<", ">"}] :
                   \A q \in P : f[q] \in CartSymbolsOn(plan[q[1] + 1][q[2] + 1])} :
               P \in places}

RailText(plan, placed) ==
    JoinLines([x \in 1..Len(plan) |->
                 [y \in 1..Len(plan[x]) |->
                     IF <<x - 1, y - 1>> \in DOMAIN placed THEN placed[<<x - 1, y - 1>>]
                     ELSE plan[x][y]]])

RailTexts == UNION {{RailText(plan, placed) : placed \in Placements(plan)} : plan \in TrackPlans}

NoCartStep == [kind |-> "none", id |-> -1, hit |-> -1, at |-> <<0, 0>>, before |-> <<>>]

CartIds(c) == {c[q].id : q \in DOMAIN c}

\* the dict c without the key q
Without(c, q) == [r \in DOMAIN c \ {q} |-> c[r]]

\* the dict c with c[q] = cart
With(c, q, cart) == [r \in DOMAIN c \cup {q} |-> IF r = q THEN cart ELSE c[r]]

\* Rails(rails, carts) as process_rails returns it, and the simulation chosen
Day13Init ==
    /\ pc13 = "loop"
    /\ remove_crashes \in BOOLEAN
    /\ \E text \in RailTexts :
          /\ rails = ProcessRails(text)
          /\ carts = ProcessCarts(text)
    /\ cart_order = <<>>
    /\ order_idx = 1
    /\ result = <<>>
    /\ ticks = 0
    /\ tick_start = carts
    /\ last_cart = NoCartStep
    /\ NotDay13Unused

\* mutant: the carts taken column by column
CartOrderByColumn(c) ==
    LET flipped == SortedTiles({<<q[2], q[1]>> : q \in DOMAIN c})
    IN  [i \in 1..Len(flipped) |-> <<flipped[i][2], flipped[i][1]>>]

\* sorted(self._carts.keys())
CartOrder(c) == SortedTiles(DOMAIN c)

\* mutant: the cart that was run into stays
KeepHit(c, q) == c

\* del carts[(self.x, self.y)] of the cart that was run into
RemoveHit(c, q) == Without(c, q)

\* the while loop goes on: Rails.tick up to its for loop
BeginTick ==
    /\ pc13 = "loop"
    /\ remove_crashes => Cardinality(DOMAIN carts) > 1
    /\ ticks < MaxTicks
    /\ ticks' = ticks + 1
    /\ cart_order' = CartOrder(carts)
    /\ order_idx' = 1
    /\ tick_start' = carts
    /\ pc13' = "tick"
    /\ UNCHANGED <<remove_crashes, rails, carts, result, last_cart, not_day13>>

OnTurn == pc13 = "tick" /\ order_idx <= Len(cart_order)

SortedPos == cart_order[order_idx]

\* Rails.tick: `if (x, y) in self._carts` fails, or the cart found there has
\* its collision_state set and its tick returns None at once
PassEmptied ==
    /\ OnTurn
    /\ SortedPos \in DOMAIN carts => carts[SortedPos].collision_state
    /\ order_idx' = order_idx + 1
    /\ last_cart' = [NoCartStep EXCEPT !.kind = "pass", !.at = SortedPos, !.before = carts]
    /\ UNCHANGED <<pc13, remove_crashes, rails, carts, cart_order, result, ticks,
                   tick_start, not_day13>>

\* Cart.tick raises: rails[(self.x, self.y)] is a KeyError off the text, and
\* a straight track refuses a cart heading across it
CartRaises ==
    /\ OnTurn
    /\ SortedPos \in DOMAIN carts
    /\ LET cart == carts[SortedPos]
       IN  /\ ~cart.collision_state
           /\ \/ /\ <<cart.x, cart.y>> \notin DOMAIN rails
                 /\ pc13' = "KeyError"
              \/ /\ <<cart.x, cart.y>> \in DOMAIN rails
                 /\ IllegalHeading(cart, rails[<<cart.x, cart.y>>])
                 /\ pc13' = "ValueError"
           /\ last_cart' = [NoCartStep EXCEPT !.kind = "raise", !.id = cart.id,
                                              !.at = SortedPos, !.before = carts]
    /\ UNCHANGED <<remove_crashes, rails, carts, cart_order, order_idx, result, ticks,
                   tick_start, not_day13>>

\* the cart whose tick it is can be driven
Drivable ==
    /\ OnTurn
    /\ SortedPos \in DOMAIN carts
    /\ ~carts[SortedPos].collision_state
    /\ <<carts[SortedPos].x, carts[SortedPos].y>> \in DOMAIN rails
    /\ ~IllegalHeading(carts[SortedPos], rails[<<carts[SortedPos].x, carts[SortedPos].y>>])

Driven == Drive(carts[SortedPos], rails[<<carts[SortedPos].x, carts[SortedPos].y>>])

\* the carts left by `del carts[(oldx, oldy)]`
Others == Without(carts, <<carts[SortedPos].x, carts[SortedPos].y>>)

\* Cart.tick without a collision, and Rails.tick goes on
CartMoves ==
    /\ Drivable
    /\ <<Driven.x, Driven.y>> \notin DOMAIN Others
    /\ carts' = With(Others, <<Driven.x, Driven.y>>, Driven)
    /\ order_idx' = order_idx + 1
    /\ last_cart' = [NoCartStep EXCEPT !.kind = "move", !.id = Driven.id,
                                       !.at = <<Driven.x, Driven.y>>, !.before = carts]
    /\ UNCHANGED <<pc13, remove_crashes, rails, cart_order, result, ticks, tick_start,
                   not_day13>>

\* Cart.tick with a collision; Rails.tick returns the result unless the
\* crashed carts are removed
CartCrashes ==
    /\ Drivable
    /\ <<Driven.x, Driven.y>> \in DOMAIN Others
    /\ last_cart' = [NoCartStep EXCEPT !.kind = "crash", !.id = Driven.id,
                                       !.hit = Others[<<Driven.x, Driven.y>>].id,
                                       !.at = <<Driven.x, Driven.y>>, !.before = carts]
    /\ IF remove_crashes
       THEN /\ carts' = RemoveHit(Others, <<Driven.x, Driven.y>>)
            /\ order_idx' = order_idx + 1
            /\ UNCHANGED <<pc13, result>>
       ELSE \* the other cart gets an attribute `collistion_state`: its
            \* collision_state stays False
            /\ carts' = Others
            /\ result' = <<Driven.y, Driven.x>>
            /\ pc13' = "done"
            /\ UNCHANGED order_idx
    /\ UNCHANGED <<remove_crashes, rails, cart_order, ticks, tick_start, not_day13>>

\* Rails.tick returns None
EndTick ==
    /\ pc13 = "tick"
    /\ order_idx > Len(cart_order)
    /\ pc13' = "loop"
    /\ UNCHANGED <<remove_crashes, rails, carts, cart_order, order_idx, result, ticks,
                   tick_start, last_cart, not_day13>>

\* run_cart_removal_simulation after its while loop
ReturnLastCart ==
    /\ pc13 = "loop"
    /\ remove_crashes
    /\ Cardinality(DOMAIN carts) <= 1
    /\ IF Cardinality(DOMAIN carts) = 1
       THEN LET cart == carts[CHOOSE q \in DOMAIN carts : TRUE]
            IN  /\ result' = <<cart.y, cart.x>>
                /\ pc13' = "done"
       ELSE /\ pc13' = "AssertionError"
            /\ UNCHANGED result
    /\ UNCHANGED <<remove_crashes, rails, carts, cart_order, order_idx, ticks,
                   tick_start, last_cart, not_day13>>

Day13Next ==
    \/ BeginTick
    \/ PassEmptied
    \/ CartRaises
    \/ CartMoves
    \/ CartCrashes
    \/ EndTick
    \/ ReturnLastCart

Day13Spec == Day13Init /\ [][Day13Next]_day13_vars

(***************************************************************************)
(* A tick told cart by cart: the carts, named by their ids, move once each *)
(* in the order of their positions at the start of the tick, and the tick  *)
(* ends at the first move that puts a cart on the tile of another cart.    *)
(***************************************************************************)
CartById(c, id) == c[CHOOSE q \in DOMAIN c : c[q].id = id]

ById(c) == [id \in CartIds(c) |-> CartById(c, id)]

\* the ids of the carts in ascending (row, column) order of their positions
IdsInOrder(c) ==
    LET sorted == SortedTiles(DOMAIN c)
    IN  [i \in 1..Len(sorted) |-> c[sorted[i]].id]

RECURSIVE TickByCart(_, _, _)
TickByCart(by_id, ids, k) ==
    IF k > Len(ids) THEN [carts |-> by_id, collision |-> <<>>, hit |-> -1]
    ELSE LET cart  == by_id[ids[k]]
             moved == Drive(cart, rails[<<cart.x, cart.y>>])
             there == {j \in DOMAIN by_id \ {cart.id} :
                          by_id[j].x = moved.x /\ by_id[j].y = moved.y}
         IN  IF there # {}
             THEN [carts |-> by_id, collision |-> <<moved.y, moved.x>>,
                   hit |-> CHOOSE j \in there : TRUE]
             ELSE TickByCart([by_id EXCEPT ![cart.id] = moved], ids, k + 1)

TickTold == TickByCart(ById(tick_start), IdsInOrder(tick_start), 1)

\* C13: run_simulation returns the (column, row) of the first collision, the
\* carts moving one at a time in the order of their positions at the start
\* of the tick and a collision being detected right after the move that
\* causes it: a tick that ends without a result had no collision and moved
\* every cart once, and the result is the collision of the tick it ends.
C13_FirstCollision ==
    ~remove_crashes =>
        /\ (pc13 = "loop" /\ ticks > 0) =>
              /\ TickTold.collision = <<>>
              /\ ById(carts) = TickTold.carts
        /\ pc13 = "done" =>
              /\ result = TickTold.collision
              /\ last_cart.hit = TickTold.hit

\* a collision, in the second tick or later, with a cart that has already
\* moved in that tick
C13_Witness ==
    /\ ~remove_crashes
    /\ pc13 = "done"
    /\ ticks >= 2
    /\ last_cart.kind = "crash"
    /\ LET hit == CartById(last_cart.before, last_cart.hit)
       IN  <<hit.x, hit.y>> \notin DOMAIN tick_start
              \/ tick_start[<<hit.x, hit.y>>].id # hit.id

\* a step of the removal simulation removes no cart, or it is a crash and
\* removes the cart that moved and the cart it ran into, and no other
CrashRemovesTheTwo ==
    remove_crashes =>
        /\ Cardinality(CartIds(carts')) = Cardinality(DOMAIN carts')
        /\ \/ /\ CartIds(carts') = CartIds(carts)
              /\ last_cart'.kind = "crash" => last_cart' = last_cart
           \/ /\ last_cart'.kind = "crash"
              /\ last_cart'.before = carts
              /\ last_cart'.id # last_cart'.hit
              /\ {last_cart'.id, last_cart'.hit} \subseteq CartIds(carts)
              /\ CartIds(carts') = CartIds(carts) \ {last_cart'.id, last_cart'.hit}
        /\ Cardinality(DOMAIN carts') % 2 = Cardinality(DOMAIN carts) % 2

\* the removal simulation has left its while loop
LoopLeft == pc13 \in {"done", "AssertionError"}

\* C14: in run_cart_removal_simulation every crash removes exactly the cart
\* that moved and the cart it ran into, carts are removed in no other way and
\* the parity of their number never changes; when the loop is left with an
\* odd number of carts, exactly one is left, the assertion holds and the
\* value returned is its (column, row).
C14_CrashesRemovePairs ==
    /\ [][CrashRemovesTheTwo]_day13_vars
    /\ [](remove_crashes /\ LoopLeft =>
            /\ Cardinality(DOMAIN carts) <= 1
            /\ Cardinality(DOMAIN carts) = 1 =>
                  /\ pc13 = "done"
                  /\ \E q \in DOMAIN carts :
                        /\ q = <<carts[q].x, carts[q].y>>
                        /\ result = <<q[2], q[1]>>
            /\ pc13 = "AssertionError" => Cardinality(DOMAIN carts) = 0)

\* three carts, a crash, and the position of the cart that is left returned
C14_Witness ==
    /\ remove_crashes
    /\ pc13 = "done"
    /\ ticks >= 2
    /\ \E q \in DOMAIN carts : carts[q].id \in 0..2 /\ result = <<q[2], q[1]>>
    /\ Cardinality(DOMAIN tick_start) = 3

(***************************************************************************)
(* Day 14 (src/day_14.py): find_recipes and find_recipes_2.                *)
(***************************************************************************)
MaxRoundsArg == 12
MaxPatternLen == 2
MaxRecipes == 26

DigitChars == <<"0", "1", "2", "3", "4", "5", "6", "7", "8", "9">>

\* int(i) for a digit character i
IntOf(char) == (CHOOSE k \in 1..10 : DigitChars[k] = char) - 1

\* [int(i) for i in str(number)], for the sum of two recipes
DigitsOf(number) ==
    IF number >= 10 THEN <<number \div 10, number % 10>> ELSE <<number>>

\* mutant: the elf stays on a recipe of score 0
NextRecipeByScore(elf, scores_so_far) ==
    (elf + scores_so_far[elf + 1]) % Len(scores_so_far)

\* (elf + recipes[elf] + 1) % len(recipes)
NextRecipe(elf, scores_so_far) ==
    (elf + scores_so_far[elf + 1] + 1) % Len(scores_so_far)

\* last_digits == digits
Found(window, digits) == window = digits

\* find_recipes_2, the for loop over the digits of new_recipe: the recipes
\* and last_digits after it, and whether it found the pattern and broke
RECURSIVE AppendLooking(_, _, _, _)
AppendLooking(made, window, digits, new) ==
    IF new = <<>> THEN [recipes |-> made, last_digits |-> window, found |-> FALSE]
    ELSE LET popped == IF Len(window) = Len(digits) THEN Tail(window) ELSE window
             made1   == Append(made, Head(new))
             window1 == Append(popped, Head(new))
         IN  IF Found(window1, digits)
             THEN [recipes |-> made1, last_digits |-> window1, found |-> TRUE]
             ELSE AppendLooking(made1, window1, digits, Tail(new))

\* the arguments of find_recipes_2 in the model: strings of 1..MaxPatternLen digits
Patterns == UNION {[1..k -> {DigitChars[j] : j \in 1..10}] : k \in 1..MaxPatternLen}

Day14Init ==
    /\ pc14 = "loop"
    /\ \/ part = "find_recipes" /\ rounds_arg \in 0..MaxRoundsArg /\ pattern = <<>>
       \/ part = "find_recipes_2" /\ rounds_arg = 0 /\ pattern \in Patterns
    /\ recipes = <<3, 7>>
    /\ elf1 = 0
    /\ elf2 = 1
    /\ last_digits = <<>>
    /\ answer = <<>>
    /\ NotDay14Unused

\* find_recipes: one pass of the while loop
MakeRecipes ==
    /\ pc14 = "loop"
    /\ part = "find_recipes"
    /\ Len(recipes) < rounds_arg + 10
    /\ recipes' = recipes \o DigitsOf(recipes[elf1 + 1] + recipes[elf2 + 1])
    /\ elf1' = NextRecipe(elf1, recipes')
    /\ elf2' = NextRecipe(elf2, recipes')
    /\ UNCHANGED <<pc14, part, rounds_arg, pattern, last_digits, answer, not_day14>>

\* find_recipes: return recipes[rounds:rounds+10]
ReturnTen ==
    /\ pc14 = "loop"
    /\ part = "find_recipes"
    /\ Len(recipes) >= rounds_arg + 10
    /\ answer' = SubSeq(recipes, rounds_arg + 1,
                        IF rounds_arg + 10 < Len(recipes) THEN rounds_arg + 10
                        ELSE Len(recipes))
    /\ pc14' = "done"
    /\ UNCHANGED <<part, rounds_arg, pattern, recipes, elf1, elf2, last_digits,
                   not_day14>>

\* find_recipes_2: one pass of the while loop, and the return after the pass
\* that found the pattern
LookForPattern ==
    /\ pc14 = "loop"
    /\ part = "find_recipes_2"
    /\ Len(recipes) < MaxRecipes
    /\ LET digits == [k \in 1..Len(pattern) |-> IntOf(pattern[k])]
           after  == AppendLooking(recipes, last_digits, digits,
                                   DigitsOf(recipes[elf1 + 1] + recipes[elf2 + 1]))
       IN  /\ recipes' = after.recipes
           /\ last_digits' = after.last_digits
           /\ elf1' = NextRecipe(elf1, after.recipes)
           /\ elf2' = NextRecipe(elf2, after.recipes)
           /\ IF after.found
              THEN /\ answer' = <<Len(after.recipes) - Len(digits)>>
                   /\ pc14' = "done"
              ELSE UNCHANGED <<answer, pc14>>
    /\ UNCHANGED <<part, rounds_arg, pattern, not_day14>>

Day14Next == MakeRecipes \/ ReturnTen \/ LookForPattern

Day14Spec == Day14Init /\ [][Day14Next]_day14_vars

(***************************************************************************)
(* The recipe sequence: it starts 3, 7 and grows by the digits of the sum  *)
(* of the two elves' current recipes, each elf then going forward by 1     *)
(* plus the score of its recipe, around the end of the sequence.           *)
(***************************************************************************)
RECURSIVE GrowSequence(_, _, _, _)
GrowSequence(seq, first, second, length) ==
    IF Len(seq) >= length THEN seq
    ELSE LET sum   == seq[first + 1] + seq[second + 1]
             grown == IF sum >= 10 THEN seq \o <<1, sum - 10>> ELSE Append(seq, sum)
         IN  GrowSequence(grown,
                          (first + 1 + seq[first + 1]) % Len(grown),
                          (second + 1 + seq[second + 1]) % Len(grown),
                          length)

\* the sequence as far as the model's runs go
RecipeSequence == GrowSequence(<<3, 7>>, 0, 1, MaxRecipes + MaxRoundsArg)

PatternDigits == [k \in 1..Len(pattern) |-> IntOf(pattern[k])]

\* the pattern stands in the sequence with `left` recipes to its left
AppearsAt(digits, left) ==
    /\ left + Len(digits) <= Len(RecipeSequence)
    /\ \A k \in 1..Len(digits) : RecipeSequence[left + k] = digits[k]

Appears(digits) == \E left \in 0..Len(RecipeSequence) : AppearsAt(digits, left)

FirstAppearance(digits) ==
    CHOOSE left \in 0..Len(RecipeSequence) :
        /\ AppearsAt(digits, left)
        /\ \A sooner \in 0..(left - 1) : ~AppearsAt(digits, sooner)

\* C15: for every non-empty pattern that occurs in the recipe sequence,
\* find_recipes_2 returns the number of recipes to the left of its first
\* appearance, also when that appearance begins in the two initial recipes.
C15_FirstAppearance ==
    (part = "find_recipes_2" /\ pc14 = "done") =>
        answer = <<FirstAppearance(PatternDigits)>>

\* what does hold: the value returned is the first appearance that begins
\* after the two initial recipes
C15_FirstAppearanceInNewRecipes ==
    (part = "find_recipes_2" /\ pc14 = "done") =>
        /\ AppearsAt(PatternDigits, answer[1])
        /\ answer[1] >= 2
        /\ \A sooner \in 2..(answer[1] - 1) : ~AppearsAt(PatternDigits, sooner)

\* C16: find_recipes(rounds) returns exactly ten scores, those at the positions
\* rounds .. rounds + 9 of the recipe sequence; throughout, both elf indices
\* are indices of the sequence and every recipe is a digit.
C16_TenRecipesAfterRounds ==
    part = "find_recipes" =>
        /\ elf1 \in 0..(Len(recipes) - 1)
        /\ elf2 \in 0..(Len(recipes) - 1)
        /\ \A k \in 1..Len(recipes) : recipes[k] \in 0..9
        /\ pc14 = "done" =>
              /\ Len(answer) = 10
              /\ \A k \in 1..10 : answer[k] = RecipeSequence[rounds_arg + k]

C16_Witness ==
    /\ part = "find_recipes"
    /\ pc14 = "done"
    /\ rounds_arg = 5
    /\ answer = <<0, 1, 2, 4, 5, 1, 5, 8, 9, 1>>
    /\ Len(recipes) > rounds_arg + 10

(***************************************************************************)
(* Day 12 (src/day_12.py): Pots.run_simulation.                            *)
(*                                                                         *)
(* A bitarray is a sequence of 0 and 1.  Pots(data) has run: the rules of  *)
(* the data are the dictionary transitions (the pattern read as a binary   *)
(* number -> 0 or 1) and the first line is initial_state.  The rule sets   *)
(* are those that do not make a plant out of five empty pots.              *)
(***************************************************************************)
MaxInitial == 3
MaxGenerations == 4
MaxRules == 2

\* int(bit_array.to01(), 2)
BitarrayToInt(bit_array) ==
    SumOver([k \in 1..Len(bit_array) |-> bit_array[k] * 2^(Len(bit_array) - k)],
            1..Len(bit_array))

Ones(bits) == {k \in 1..Len(bits) : bits[k] = 1}

MinOf(S) == CHOOSE x \in S : \A y \in S : x <= y

\* to01().strip('0')
Strip(bits) ==
    IF Ones(bits) = {} THEN <<>>
    ELSE SubSeq(bits, MinOf(Ones(bits)), MaxOf(Ones(bits)))

Zeros(count) == [k \in 1..count |-> 0]

\* state_string[:5] and state_string[-5:]
FirstFive(bits) == SubSeq(bits, 1, IF Len(bits) < 5 THEN Len(bits) ELSE 5)
LastFive(bits) == SubSeq(bits, IF Len(bits) < 5 THEN 1 ELSE Len(bits) - 4, Len(bits))

LeftZerosToAdd(bits) ==
    IF Ones(FirstFive(bits)) = {} THEN 0
    ELSE 5 - (MinOf(Ones(FirstFive(bits))) - 1)

RightZerosToAdd(bits) ==
    IF Ones(LastFive(bits)) = {} THEN 0
    ELSE 5 - (Len(LastFive(bits)) - MaxOf(Ones(LastFive(bits))))

\* state with the empty pots added on both sides
Padded(bits) == Zeros(LeftZerosToAdd(bits)) \o bits \o Zeros(RightZerosToAdd(bits))

\* newstate after the inner for loop: the source's x is x - 1
NewState(bits) ==
    [x \in 1..Len(bits) |->
        IF x - 1 >= 2 /\ x - 1 < Len(bits) - 2
        THEN LET lookup == BitarrayToInt(SubSeq(bits, x - 2, x + 2))
             IN  IF lookup \notin DOMAIN transitions THEN 0 ELSE transitions[lookup]
        ELSE bits[x]]

\* Pots._evaluate_state
EvaluateState(bits, zero_idx) ==
    SumOver([k \in Ones(bits) |-> (k - 1) - zero_idx], Ones(bits))

\* mutant: the generation of the break is counted as run
PrefixOneLess(diff, gens, cyclic_gen) ==
    IF diff # 0 THEN diff * (gens - cyclic_gen - 1) ELSE 0

Prefix(diff, gens, cyclic_gen) ==
    IF diff # 0 THEN diff * (gens - cyclic_gen) ELSE 0

Lookups == 0..31

\* the sets of at most `count` lookup numbers
RECURSIVE LookupSets(_)
LookupSets(count) ==
    IF count = 0 THEN {{}}
    ELSE LET smaller == LookupSets(count - 1)
         IN  smaller \cup {D \cup {lookup} : D \in smaller, lookup \in Lookups}

RuleSets ==
    {rules \in UNION {[D -> {0, 1}] : D \in LookupSets(MaxRules)} :
        0 \in DOMAIN rules => rules[0] = 0}

InitialStates == UNION {[1..k -> {0, 1}] : k \in 0..MaxInitial}

Day12Init ==
    /\ pc12 = "loop"
    /\ transitions \in RuleSets
    /\ initial_state \in InitialStates
    /\ generations \in 0..MaxGenerations
    /\ state = initial_state
    /\ zero_pot_idx = 0
    /\ cyclic_generation = 0
    /\ cyclic_diff = 0
    /\ generation = 0
    /\ pot_sum = 0
    /\ NotDay12Unused

\* one pass of the for loop that does not break
NextGeneration ==
    /\ pc12 = "loop"
    /\ generation < generations
    /\ LET padded   == Padded(state)
           newstate == NewState(padded)
       IN  /\ Strip(state) # Strip(newstate)
           /\ state' = newstate
           /\ zero_pot_idx' = zero_pot_idx + LeftZerosToAdd(state)
    /\ generation' = generation + 1
    /\ UNCHANGED <<not_day12, pc12, transitions, initial_state, generations,
                   cyclic_generation, cyclic_diff, pot_sum>>

\* the pass of the for loop that breaks
CycleFound ==
    /\ pc12 = "loop"
    /\ generation < generations
    /\ LET padded   == Padded(state)
           newstate == NewState(padded)
           zero_idx == zero_pot_idx + LeftZerosToAdd(state)
       IN  /\ Strip(state) = Strip(newstate)
           /\ state' = padded
           /\ zero_pot_idx' = zero_idx
           /\ cyclic_generation' = generation
           /\ cyclic_diff' = EvaluateState(newstate, zero_idx) - EvaluateState(padded, zero_idx)
    /\ pc12' = "cyclic"
    /\ UNCHANGED <<not_day12, transitions, initial_state, generations, generation,
                   pot_sum>>

ReturnSum ==
    /\ \/ pc12 = "loop" /\ generation = generations
       \/ pc12 = "cyclic"
    /\ pot_sum' = Prefix(cyclic_diff, generations, cyclic_generation)
                      + EvaluateState(state, zero_pot_idx)
    /\ pc12' = "done"
    /\ UNCHANGED <<not_day12, transitions, initial_state, generations, state,
                   zero_pot_idx, cyclic_generation, cyclic_diff, generation>>

Day12Next == NextGeneration \/ CycleFound \/ ReturnSum

Day12Spec == Day12Init /\ [][Day12Next]_day12_vars

(***************************************************************************)
(* The automaton on pot numbers: the pots that hold a plant are a set of   *)
(* integers, pot 0 being the first pot of the initial state; a pot holds a *)
(* plant in the next generation when a rule for the five pots around it    *)
(* says so.                                                                *)
(***************************************************************************)
PlantsOf(bits) == {k - 1 : k \in Ones(bits)}

\* the pattern of a rule, leftmost pot first
PatternOf(lookup) == [k \in 1..5 |-> (lookup \div 2^(5 - k)) % 2]

Neighbourhood(plants, pot) == [k \in 1..5 |-> IF pot + k - 3 \in plants THEN 1 ELSE 0]

GrowsPlant(plants, pot) ==
    \E lookup \in DOMAIN transitions :
        transitions[lookup] = 1 /\ PatternOf(lookup) = Neighbourhood(plants, pot)

NextPlants(plants) ==
    IF plants = {} THEN {}
    ELSE {pot \in (MinOf(plants) - 2)..(MaxOf(plants) + 2) : GrowsPlant(plants, pot)}

RECURSIVE PlantsAfter(_, _)
PlantsAfter(plants, count) ==
    IF count = 0 THEN plants ELSE PlantsAfter(NextPlants(plants), count - 1)

PotNumberSum(plants) == SumOver([pot \in plants |-> pot], plants)

MaxPolymer == 5

Letters == {"a", "A", "b", "B"}

\* str.islower, str.upper and str.lower on one letter
IsLower(c) == c \in {"a", "b"}
Upper(c) == CASE c = "a" -> "A" [] c = "b" -> "B" [] OTHER -> c
Lower(c) == CASE c = "A" -> "a" [] c = "B" -> "b" [] OTHER -> c

\* mutant: only lower case is flipped
FlipLowerOnly(c) == IF IsLower(c) THEN Upper(c) ELSE c

Flip(c) == IF IsLower(c) THEN Upper(c) ELSE Lower(c)

Polymers == UNION {[1..k -> Letters] : k \in 0..MaxPolymer}

Ignores == {"", "a", "A"}

Day05Init ==
    /\ pc05 = "loop"
    /\ polymer \in Polymers
    /\ ignore \in Ignores
    /\ polymer_stack = <<>>
    /\ p_idx = 0
    /\ simplified = <<>>
    /\ first_call = <<>>
    /\ NotDay05Unused

\* the loop variable p of the next pass
NextUnit == polymer[p_idx + 1]

Ignored(c) == Lower(c) = ignore \/ Upper(c) = ignore

Reacts(c) == Len(polymer_stack) > 0 /\ polymer_stack[Len(polymer_stack)] = Flip(c)

SkipUnit ==
    /\ pc05 = "loop"
    /\ p_idx < Len(polymer)
    /\ Ignored(NextUnit)
    /\ p_idx' = p_idx + 1
    /\ UNCHANGED <<not_day05, pc05, polymer, ignore, polymer_stack, simplified,
                   first_call>>

PopUnit ==
    /\ pc05 = "loop"
    /\ p_idx < Len(polymer)
    /\ ~Ignored(NextUnit)
    /\ Reacts(NextUnit)
    /\ polymer_stack' = SubSeq(polymer_stack, 1, Len(polymer_stack) - 1)
    /\ p_idx' = p_idx + 1
    /\ UNCHANGED <<not_day05, pc05, polymer, ignore, simplified, first_call>>

PushUnit ==
    /\ pc05 = "loop"
    /\ p_idx < Len(polymer)
    /\ ~Ignored(NextUnit)
    /\ ~Reacts(NextUnit)
    /\ polymer_stack' = Append(polymer_stack, NextUnit)
    /\ p_idx' = p_idx + 1
    /\ UNCHANGED <<not_day05, pc05, polymer, ignore, simplified, first_call>>

\* return ''.join(stack)
ReturnSimplified ==
    /\ pc05 = "loop"
    /\ p_idx = Len(polymer)
    /\ simplified' = polymer_stack
    /\ pc05' = "done"
    /\ UNCHANGED <<not_day05, polymer, ignore, polymer_stack, p_idx, first_call>>

\* simplify_polymer(simplify_polymer(polymer, ignore), ignore)
SimplifyAgain ==
    /\ pc05 = "done"
    /\ first_call = <<>>
    /\ first_call' = <<polymer, simplified>>
    /\ polymer' = simplified
    /\ polymer_stack' = <<>>
    /\ p_idx' = 0
    /\ simplified' = <<>>
    /\ pc05' = "loop"
    /\ UNCHANGED <<not_day05, ignore>>

Day05Next ==
    SkipUnit \/ PopUnit \/ PushUnit \/ ReturnSimplified \/ SimplifyAgain

Day05Spec == Day05Init /\ [][Day05Next]_day05_vars

(***************************************************************************)
(* Simplest form: two units react when they are the same letter in         *)
(* opposite case; a polymer reduces to another by deleting adjacent units  *)
(* that react.                                                             *)
(***************************************************************************)
OppositePairs == {<<"a", "A">>, <<"A", "a">>, <<"b", "B">>, <<"B", "b">>}

ReactingAt(str) == {k \in 1..(Len(str) - 1) : <<str[k], str[k + 1]>> \in OppositePairs}

DeleteAt(str, k) == SubSeq(str, 1, k - 1) \o SubSeq(str, k + 2, Len(str))

RECURSIVE Reductions(_)
Reductions(str) ==
    {str} \cup UNION {Reductions(DeleteAt(str, k)) : k \in ReactingAt(str)}

\* C18: with ignore = '' the result of simplify_polymer has no two adjacent
\* units that are the same letter in opposite case, is obtained from the
\* input by deleting such adjacent pairs only, and is returned unchanged when
\* simplify_polymer is applied to it.
C18_SimplestForm ==
    (pc05 = "done" /\ ignore = "") =>
        /\ ReactingAt(simplified) = {}
        /\ simplified \in Reductions(polymer)
        /\ first_call # <<>> =>
              /\ polymer = first_call[2]
              /\ simplified = first_call[2]

\* a polymer with a pair inside a pair has been simplified twice
C18_Witness ==
    /\ pc05 = "done"
    /\ ignore = ""
    /\ first_call # <<>>
    /\ Len(first_call[1]) = 5
    /\ SubSeq(first_call[1], 2, 5) = <<"a", "b", "B", "A">>
    /\ simplified = <<first_call[1][1]>>

(***************************************************************************)
(* Day 1 (src/day_01/day_01.py): find_repeated_frequency, with the         *)
(* generator frequency_generator.  find_repeated_freq of                   *)
(* src/day01/day012.py is the same loop on the list read from a file.      *)
(***************************************************************************)
MaxChanges == 3
MaxChange == 2
MaxSeen == 8

ChangeLists == UNION {[1..k -> (0 - MaxChange)..MaxChange] : k \in 1..MaxChanges}

\* mutant: at the end of the list the generator stays on the last change
StayOnLast(changes, n) == IF n = Len(changes) THEN Len(changes) - 1 ELSE n

\* frequency_generator: the index of the change the next yield gives
ResetAtEnd(changes, n) == IF n = Len(changes) THEN 0 ELSE n

Day01Init ==
    /\ pc01 = "loop"
    /\ freqs \in ChangeLists
    /\ gen_n = 0
    /\ seen_freqs = {}
    /\ freq = 0
    /\ repeated = 0
    /\ NotDay01Unused

\* one pass of the while loop, with the next(gen) it makes
AddChange ==
    /\ pc01 = "loop"
    /\ freq \notin seen_freqs
    /\ Cardinality(seen_freqs) < MaxSeen
    /\ seen_freqs' = seen_freqs \cup {freq}
    /\ freq' = freq + freqs[ResetAtEnd(freqs, gen_n) + 1]
    /\ gen_n' = ResetAtEnd(freqs, gen_n) + 1
    /\ UNCHANGED <<not_day01, pc01, freqs, repeated>>

ReturnRepeated ==
    /\ pc01 = "loop"
    /\ freq \in seen_freqs
    /\ repeated' = freq
    /\ pc01' = "done"
    /\ UNCHANGED <<not_day01, freqs, gen_n, seen_freqs, freq>>

Day01Next == AddChange \/ ReturnRepeated

Day01Spec == Day01Init /\ [][Day01Next]_day01_vars

(***************************************************************************)
(* The running sum after `count` changes, the list being applied over and  *)
(* over: whole passes of the list, then the first changes of the next one. *)
(***************************************************************************)
RunningSum(changes, count) ==
    (count \div Len(changes)) * SumOver(changes, 1..Len(changes))
        + SumOver(changes, 1..(count % Len(changes)))

\* the running sum after `count` changes is a value it has taken before
TakenBefore(changes, count) ==
    \E sooner \in 0..(count - 1) : RunningSum(changes, sooner) = RunningSum(changes, count)

FirstRepeat(changes) ==
    CHOOSE count \in 1..MaxSeen :
        /\ TakenBefore(changes, count)
        /\ \A sooner \in 1..(count - 1) : ~TakenBefore(changes, sooner)

\* C19: when find_repeated_frequency returns, the value returned is the first
\* value that the running sum takes for the second time, the running sum
\* starting at 0 and the changes being applied in list order over and over.
C19_FirstRepeatedFrequency ==
    pc01 = "done" =>
        /\ \E count \in 1..MaxSeen : TakenBefore(freqs, count)
        /\ repeated = RunningSum(freqs, FirstRepeat(freqs))

\* a return after the list has been gone through more than once
C19_Witness ==
    /\ pc01 = "done"
    /\ Cardinality(seen_freqs) > Len(freqs)
    /\ Len(freqs) >= 2
    /\ repeated # 0
    /\ repeated = RunningSum(freqs, Cardinality(seen_freqs))

(***************************************************************************)
(* Day 15 (src/day_15.py): where the units of an occupancy map stand.      *)
(***************************************************************************)
\* every unit of the map is stored under its recorded position, a Floor tile
UnitsInPlace(board, crit) ==
    \A t \in DOMAIN crit :
        /\ crit[t].x = t[1]
        /\ crit[t].y = t[2]
        /\ t[1] \in 0..(Len(board) - 1)
        /\ t[2] \in 0..(Len(board[t[1] + 1]) - 1)
        /\ board[t[1] + 1][t[2] + 1] = "FLOOR"

\* C20: in every reachable state every living unit stands on a Floor tile and
\* the position recorded in the unit equals the key under which it is stored
\* in the occupancy map, also right after a move.
C20_UnitsStandWhereRecorded ==
    /\ UnitsInPlace(self_board, self_critters)
    /\ UnitsInPlace(self_board, arg_critters)
    /\ UnitsInPlace(self_board, critters)

\* C20 witness: a unit has just stepped to another tile in a later round
C20_Witness ==
    /\ pc = "moved"
    /\ last.kind = "move"
    /\ num_rounds >= 1
    /\ last.from \notin DOMAIN critters
    /\ \E t \in DOMAIN critters :
          /\ critters[t].id = last.id
          /\ t # last.from
          /\ <<critters[t].x, critters[t].y>> = t

(***************************************************************************)
(* Day 9 (src/day_09.py): the ring of Marble objects.                      *)
(***************************************************************************)
RightLinks(heap) == [m \in DOMAIN heap |-> heap[m].right]

LeftLinks(heap) == [m \in DOMAIN heap |-> heap[m].left]

\* the marbles reached from S by following `links` any number of times: S
\* grows by the marbles 1, 2, 4, ... links away until it grows no more
RECURSIVE ReachedFrom(_, _)
ReachedFrom(S, links) ==
    LET further == S \cup {links[m] : m \in S}
    IN  IF further = S THEN S
        ELSE ReachedFrom(further, [m \in DOMAIN links |-> links[links[m]]])

\* the circle: the marbles reached from the current marble
Ring == ReachedFrom({current_marble}, RightLinks(marbles))

MarblesPlayed == new_marble - 1

\* C26: after every marble played the circle is a consistent doubly linked
\* ring: for every marble m of it, m.left.right and m.right.left are m,
\* following right or left from the current marble returns to it, the values in
\* the ring are pairwise distinct, and after n marbles the ring holds
\* 1 + n - 2 * floor(n / 23) marbles.
C26_ConsistentRing ==
    pc09 \in {"loop", "done"} =>
        /\ \A m \in Ring : /\ marbles[marbles[m].left].right = m
                            /\ marbles[marbles[m].right].left = m
        /\ ReachedFrom({current_marble}, LeftLinks(marbles)) = Ring
        /\ \E m \in Ring : marbles[m].right = current_marble
        /\ \E m \in Ring : marbles[m].left = current_marble
        /\ \A m \in Ring : \A o \in Ring : marbles[m].value = marbles[o].value => m = o
        /\ Cardinality(Ring) = 1 + MarblesPlayed - 2 * (MarblesPlayed \div 23)

\* C26 witness: the ring after the second marble was removed from it
C26_Witness ==
    /\ pc09 = "loop"
    /\ MarblesPlayed = 46
    /\ Cardinality(Ring) = 43
    /\ Cardinality(DOMAIN marbles) = 45
    /\ current_marble \in Ring

(***************************************************************************)
(* Day 15 (src/day_15.py): can_be_occupied at and beyond the edge of the   *)
(* board.                                                                  *)
(***************************************************************************)
\* the tiles of the board and those one step outside it
TilesAround(board) ==
    {<<x, y>> : x \in (0 - 1)..Len(board), y \in (0 - 1)..(MaxCols + 2)}

\* C27: for every tile can_be_occupied returns True exactly when the tile is
\* inside the board, is Floor and holds no living unit; for a tile outside the
\* board it returns False without raising, so a map with a floor tile or a unit
\* on its last row or last column is simulated without an error.
C27_CanBeOccupiedNeverRaises ==
    /\ pc # "error"
    /\ InPlay =>
          \A tile \in TilesAround(self_board) :
              /\ ~RaisesIndexError(self_board, tile)
              /\ CanBeOccupied(self_board, critters, tile)
                     <=> FreeTile(self_board, critters, tile)

\* C27, the part that holds: where can_be_occupied returns, it returns True
\* exactly for the free floor tiles of the board
C27_CanBeOccupiedWhereItReturns ==
    InPlay =>
        \A tile \in TilesAround(self_board) :
            ~RaisesIndexError(self_board, tile) =>
                (CanBeOccupied(self_board, critters, tile)
                    <=> FreeTile(self_board, critters, tile))

(***************************************************************************)
(* Day 15 (src/day_15.py): how far a unit goes in a turn and in a round.   *)
(***************************************************************************)
\* every unit of `crit` other than `but` is where it is in `before`
SamePlaces(before, crit, but) ==
    \A id \in Ids(crit) \ but : KeyOf(crit, id) = KeyOf(before, id)

\* C21: in one turn a unit's position stays the same or changes to one of its
\* four neighbouring tiles; it changes at most once per round, and it does not
\* change in a turn at whose start the unit has an enemy on an adjacent tile.
C21_OneStepPerRound ==
    /\ last.kind = "move" =>
          /\ KeyOf(critters, last.id) \in NeighbourSet(last.from)
          /\ ~HasEnemyBeside(last.pre, last.from, RaceOf(last.pre, last.id))
          /\ last.id \notin {round_log.turns[i] : i \in 1..(Len(round_log.turns) - 1)}
          /\ SamePlaces(last.pre, critters, {last.id})
    /\ last.kind \in {"attack", "stay", "rest", "raise", "skip", "stop"} =>
          SamePlaces(last.pre, critters, {})
    /\ InPlay =>
          \A id \in Ids(critters) :
              /\ KeyOf(critters, id) \in {StartTile(id)} \cup NeighbourSet(StartTile(id))
              /\ id \notin TurnsTaken => KeyOf(critters, id) = StartTile(id)

\* C21 witness: a unit has stepped towards an enemy that is further than one
\* step away, after another unit's turn in the round
C21_Witness ==
    /\ pc = "moved"
    /\ last.kind = "move"
    /\ enemy_to_attack = None
    /\ Cardinality(TurnsTaken) >= 2
    /\ KeyOf(critters, last.id) \in NeighbourSet(StartTile(last.id))

(***************************************************************************)
(* Day 15 (src/day_15.py): what an attack does.                            *)
(***************************************************************************)
\* C22: an attack lowers the hit points of exactly one unit, the chosen
\* adjacent enemy, by the attacker's attack power, and a unit whose hit points
\* reach 0 or less is removed in that same turn; so every unit in the occupancy
\* map has between 1 and 200 hit points at the start of every turn, and a
\* removed unit is not targeted, blocks no tile and does not act afterwards.
C22_AttackHitsOneEnemy ==
    /\ last.kind = "attack" =>
          LET before == last.pre
              power  == before[last.from].attack_power
              left   == before[last.target].hit_points - power
          IN  /\ before[last.from].id = last.id
              /\ last.target \in DOMAIN before
              /\ last.target \in NeighbourSet(last.from)
              /\ before[last.target].race # before[last.from].race
              /\ before[last.target].hit_points >= 1
              /\ \A t \in DOMAIN before \ {last.target} :
                    t \in DOMAIN critters /\ critters[t] = before[t]
              /\ IF left <= 0
                 THEN DOMAIN critters = DOMAIN before \ {last.target}
                 ELSE /\ DOMAIN critters = DOMAIN before
                      /\ critters[last.target] =
                            [before[last.target] EXCEPT !.hit_points = left]
    /\ InPlay =>
          \A t \in DOMAIN critters : critters[t].hit_points \in 1..InitialHitPoints
    /\ last.kind \in ActingKinds \cup {"stop"} => last.id \in Ids(last.pre)
    /\ last.kind = "skip" =>
          /\ last.id \notin Ids(critters)
          /\ last.id \in Ids(round_log.start)
    /\ InPlay => Ids(critters) \subseteq Ids(round_log.start)

\* C22 witness: an attack has just removed a unit while two others live on
C22_Witness ==
    /\ pc = "turn"
    /\ last.kind = "attack"
    /\ last.target \notin DOMAIN critters
    /\ last.pre[last.target].hit_points \in 1..InitialAttackPower
    /\ Cardinality(DOMAIN critters) = 2

(***************************************************************************)
(* Day 15 (src/day_15.py): what the later units of a round see.            *)
(***************************************************************************)
\* the enemies next to `pos` in the map `crit`
EnemiesBeside(crit, pos, race) ==
    {n \in NeighbourSet(pos) : n \in DOMAIN crit /\ crit[n].race # race}

\* C23: a unit that has moved earlier in a round is seen at its new position,
\* not at its round-start position, by every unit that acts later in the same
\* round, as a possible target and as an obstacle; a tile vacated earlier in
\* the round by a move or a death is free for the later units of the round.
C23_LaterUnitsSeeTheMapAsItIs ==
    /\ last.kind = "attack" =>
          LET beside == EnemiesBeside(last.pre, last.from, last.pre[last.from].race)
          IN  /\ last.target \in beside
              /\ \A n \in beside :
                    last.pre[last.target].hit_points <= last.pre[n].hit_points
    /\ last.kind \in {"move", "stay"} =>
          /\ EnemiesBeside(last.pre, last.from, RaceOf(last.pre, last.id)) = {}
          /\ KeyOf(critters, last.id) =
                ReferenceStep(self_board, last.pre, last.from, RaceOf(last.pre, last.id))
    /\ last.kind = "move" =>
          FreeTile(self_board, last.pre, KeyOf(critters, last.id))
    /\ last.kind \in {"stay", "rest"} =>
          EnemiesBeside(critters, KeyOf(critters, last.id), RaceOf(critters, last.id)) = {}

\* C23 witness: a unit attacks an enemy that came next to it earlier in the
\* round, and a third unit has left its round-start tile
C23_Witness ==
    /\ last.kind = "attack"
    /\ pc = "turn"
    /\ last.target \notin DOMAIN round_log.start
    /\ last.from \in DOMAIN round_log.start
    /\ round_log.start[last.from].id = last.id
    /\ last.pre[last.target].id \in TurnsTaken

\* a unit steps onto a tile that another unit left earlier in the round
C23_VacatedTileTaken ==
    /\ last.kind = "move"
    /\ KeyOf(critters, last.id) \in DOMAIN round_log.start

(***************************************************************************)
(* Day 15 (src/day_15.py): the trial runs of determine_elf_strength.       *)
(***************************************************************************)
\* the units of `units` with the elves at `power` and the goblins at 3
AtTrialPower(units, power) ==
    [t \in DOMAIN units |->
        [units[t] EXCEPT !.attack_power =
            IF units[t].race = "ELF" THEN power ELSE InitialAttackPower]]

\* play() has just been entered
RunBegins == pc = "turn" /\ last.kind = "round" /\ full_rounds = 0

\* C24: the trial runs use the elf attack powers 4, 5, 6, ... in this order,
\* one run per power; every trial run starts from the initial map (every unit
\* at its original position with 200 hit points, nothing carried over from the
\* run before), every elf has the trial power and every goblin keeps 3.
C24_TrialsStartFromInitialMap ==
    (mode = "strength" /\ InPlay) =>
        /\ attack_power = InitialAttackPower + Len(trials) + 1
        /\ \A i \in DOMAIN trials : trials[i].powers \subseteq {InitialAttackPower + i}
        /\ \A t \in DOMAIN critters :
              critters[t].attack_power =
                  IF critters[t].race = "ELF" THEN attack_power ELSE InitialAttackPower
        /\ arg_critters = AtTrialPower(self_critters, attack_power)
        /\ RunBegins =>
              /\ self_critters = ParseCritters(data)
              /\ critters = arg_critters
              /\ \A t \in DOMAIN critters :
                    /\ critters[t].hit_points = InitialHitPoints
                    /\ <<critters[t].x, critters[t].y>> = t

\* C24 witness: the third trial run begins, after a run in which an elf died
\* and units moved
C24_Witness ==
    /\ mode = "strength"
    /\ RunBegins
    /\ Len(trials) = 2
    /\ attack_power = 6
    /\ trials[2].alive # {critters[t].id : t \in ElfKeys(critters)}
    /\ GoblinKeys(critters) # {}

\* determine_elf_strength has returned the score of its last run
StrengthReturned ==
    /\ pc = "idle"
    /\ mode = "strength"
    /\ returned # <<>>
    /\ returned[Len(returned)][1] = "strength"

\* C25: on a map with at least one elf, the run whose score
\* determine_elf_strength returns ended with every elf alive and no goblin
\* alive: the test `pop == len(elves)` succeeds only on a run the elves won.
C25_ReturnedRunWasWon ==
    ElfKeys(self_critters) # {} =>
        /\ (pc = "returned" /\ ret[2] = Cardinality(ElfKeys(self_critters))) =>
              /\ GoblinKeys(critters) = {}
              /\ {critters[t].id : t \in DOMAIN critters} = AllElfIds
        /\ StrengthReturned =>
              /\ returned[Len(returned)][2] = trials[Len(trials)].score
              /\ trials[Len(trials)].alive = AllElfIds
              /\ GoblinKeys(critters) = {}
              /\ {critters[t].id : t \in DOMAIN critters} = AllElfIds

\* C25 witness: the score of the third trial run is returned on a map with
\* goblins, after runs that elves did not survive
C25_Witness ==
    /\ StrengthReturned
    /\ Len(trials) >= 3
    /\ GoblinKeys(self_critters) # {}
    /\ ElfKeys(self_critters) # {}
    /\ trials[1].alive # AllElfIds
    /\ DOMAIN critters # {}

=============================================================================
